---- MODULE Spec2Model ----
(***************************************************************************)
(* Metagrain: the three granular operators of the plugin                   *)
(*   FGranularSynthOperator            ("GS",     GranularSynthNode.cpp)   *)
(*   FGranularSynthOperator_Step8      ("Step8",  GranularSynthNode.cpp)   *)
(*   FGranularWavePlayerSmoothOperator ("Smooth", GranularWavePlayer...)   *)
(* as one state machine.  One step is one call of Execute (one audio       *)
(* block) or one call of Reset.                                            *)
(*                                                                         *)
(* Units.  Times are whole milliseconds, sample counts are whole samples,  *)
(* SampleRate is in samples per millisecond.  The inputs are chosen so     *)
(* that every float expression of the source has an integral value.        *)
(* Audio buffers are abstracted to the set of things mixed into them since *)
(* they were last cleared: {} is the all-zero buffer.                      *)
(***************************************************************************)
EXTENDS Integers, Sequences, FiniteSets, TLC

VARIABLES
    op,                 \* which operator class this instance is
    SampleRate,         \* InSettings.GetSampleRate(), samples per ms
    BlockSize,          \* frames per block
    bIsPlaying,
    SamplesUntilNextGrain,
    GrainVoices,        \* TArray<FGrainVoice>, index 1..MaxGrainVoices
    CurrentWaveProxy,
    CachedSoundWaveDuration,
    CurrentNumChannels,
    ConvertDeinterleave,    \* TRUE iff the unique pointer is valid
    OnPlayTrigger,          \* frames triggered in the current block
    OnFinishedTrigger,
    OnGrainTriggered,
    AudioOutputLeft,
    AudioOutputRight,
    OutputGrain,            \* GS: the six per-grain telemetry outputs
    bPreviousFreezeState,   \* Smooth
    CurrentPlaybackPositionSeconds, \* Smooth (ms)
    PrevGrainValue,         \* Smooth: TRUE iff the post-filter memory is non-zero
    blk,                    \* observation of the last step: its inputs and what it did
    sched,                  \* observation of the scheduler over the blocks of a session
    env                     \* the envelope of one grain, sample by sample

vars == <<op, SampleRate, BlockSize, bIsPlaying, SamplesUntilNextGrain, GrainVoices,
          CurrentWaveProxy, CachedSoundWaveDuration, CurrentNumChannels,
          ConvertDeinterleave, OnPlayTrigger, OnFinishedTrigger, OnGrainTriggered,
          AudioOutputLeft, AudioOutputRight, OutputGrain, bPreviousFreezeState,
          CurrentPlaybackPositionSeconds, PrevGrainValue, blk, sched, env>>

(***************************************************************************)
(* Bounds of the model.                                                    *)
(***************************************************************************)
\* Size of the voice pool.  The source has 32; the pool logic is the same
\* for every size, and a small pool is filled within a few blocks.
MaxGrainVoices == 2
\* Frames of one decode chunk.  The source has 256 (with blocks of 256+).
DeinterleaveBlockSizeFrames == 8
\* Cap of the per-voice count of rendered blocks (observation only).
MaxAge == 4
\* Decode-size quantum of the Smooth reader.  The source has 128.
DecodeSizeQuantization == 4
\* Blocks of the steady-state session: one period of the scheduler at an
\* interval of 4800 samples and blocks of 512 is 75 blocks (8 intervals).
MaxBlocks16 == 80
\* Longest grain, in samples, whose envelope is computed sample by sample.
MaxGrainSamples == 8
\* passes of one scheduler loop that take the same time-jitter variate; a
\* later pass of the loop takes the top of the jitter range
MaxJitterRun == 4

Ops == {"GS", "Step8", "Smooth"}
SampleRates == {2}
BlockSizes == {8}
Voices == 1..MaxGrainVoices

(***************************************************************************)
(* Program constants.                                                      *)
(***************************************************************************)
MinGrainDurationSeconds == 5        \* 0.005 s, in ms
MaxAbsPitchShiftSemitones == 60
MinSamplesPerGrainInterval == 1
\* Audio::FMultichannelLinearResampler::MaxFrameRatio (engine constant)
MaxFrameRatio == 100

Min(a, b) == IF a < b THEN a ELSE b
Max(a, b) == IF a > b THEN a ELSE b
Clamp(x, lo, hi) == IF x < lo THEN lo ELSE IF x > hi THEN hi ELSE x
\* FMath::CeilToInt(a / b) for b > 0
CeilDiv(a, b) == IF a >= 0 THEN (a + b - 1) \div b ELSE -((-a) \div b)
\* one subtraction in place of the remainder
Fmod_Subtract(a, b) == a - b

\* FMath::Fmod(a, b) for a >= 0, b > 0
Fmod(a, b) == a % b
\* FMath::Pow(2, semitones / 12) on the semitone values the inputs use
Pow2Semitones(s) == CASE s = 0 -> 1 [] s = 12 -> 2 [] s = 24 -> 4 [] s = 36 -> 8
                         [] s = 60 -> 32

(***************************************************************************)
(* The wave assets the host can connect (the external asset / reader).     *)
(*   None     no asset: IsSoundWaveValid() is false                        *)
(*   W1       mono, 12 ms          W2   stereo, 8 ms                       *)
(*   Short    mono, 4 ms (shorter than the minimum grain)                  *)
(*   NoReader FSoundWaveProxyReader::Create fails for the probe reader     *)
(***************************************************************************)
Assets == {"None", "W1", "W2", "Short", "NoReader"}
IsSoundWaveValid(a) == a # "None"
ProxyIsValid(a) == a # "None"
TempReaderIsValid(a) == a \notin {"None", "NoReader"}
NumFramesInWave(a) == CASE a = "W1" -> 24 [] a = "W2" -> 16 [] a = "Short" -> 8 [] OTHER -> 24
WaveSampleRate(a) == 2
NumChannelsOf(a) == CASE a = "W1" -> 1 [] a = "W2" -> 2 [] a = "Short" -> 1 [] OTHER -> 0
\* Audio::IConvertDeinterleave::Create
DeinterleaveCreate(ch) == ch >= 1

(***************************************************************************)
(* Voices.                                                                 *)
(* Reader: TRUE iff the unique pointer is valid.  Resampler: 0 for a null  *)
(* pointer, else the frame ratio it was given.  SourceCircularBuffer and   *)
(* FullGrainSegmentBuffer: number of frames held.                          *)
(* Age observes the grain: the number of blocks it was rendered in.        *)
(***************************************************************************)
FGrainVoice ==
    [bIsActive |-> FALSE, NumChannels |-> 0, SamplesRemaining |-> 0, SamplesPlayed |-> 0,
     TotalGrainSamples |-> 0, bIsReversed |-> FALSE, Reader |-> FALSE, Resampler |-> 0,
     SourceCircularBuffer |-> 0, FullGrainSegmentBuffer |-> 0,
     FullGrainSegmentReadOffset |-> 0,
     Age |-> 0]

ResetVoice(v) ==
    [v EXCEPT !.bIsActive = FALSE, !.NumChannels = 0, !.SamplesRemaining = 0,
              !.SamplesPlayed = 0, !.TotalGrainSamples = 0, !.bIsReversed = FALSE,
              !.FullGrainSegmentBuffer = 0, !.FullGrainSegmentReadOffset = 0,
              !.Reader = FALSE, !.Resampler = 0, !.SourceCircularBuffer = 0,
              !.Age = 0]

\* a ResetVoices that leaves the pool as it is
ResetVoices_Skip(o) == o

ResetVoices(o) ==
    [o EXCEPT !.GrainVoices = [i \in DOMAIN o.GrainVoices |-> ResetVoice(o.GrainVoices[i])]]

ActiveVoices(gv) == {i \in DOMAIN gv : gv[i].bIsActive}

\* a scan that falls back on the first slot when no slot is inactive
FirstInactive_Steal(gv) ==
    IF \A i \in DOMAIN gv : gv[i].bIsActive THEN 1
    ELSE CHOOSE i \in DOMAIN gv : /\ ~gv[i].bIsActive
                                  /\ \A j \in DOMAIN gv : j < i => gv[j].bIsActive

\* the linear scan of TriggerGrain: first inactive slot, 0 if there is none
FirstInactive(gv) ==
    IF \A i \in DOMAIN gv : gv[i].bIsActive THEN 0
    ELSE CHOOSE i \in DOMAIN gv : /\ ~gv[i].bIsActive
                                  /\ \A j \in DOMAIN gv : j < i => gv[j].bIsActive

\* Voice.bIsActive = false; Voice.Reader.Reset(); Voice.Resampler.Reset();
Deactivate(v) ==
    [v EXCEPT !.bIsActive = FALSE, !.Reader = FALSE, !.Resampler = 0]

\* The counters and buffers of an inactive voice are written by TriggerGrain
\* before anything reads them again; the model does not keep them.  It keeps
\* whether an inactive voice still holds a reader or a resampler.
Untracked(v) ==
    IF v.bIsActive THEN v
    ELSE [FGrainVoice EXCEPT !.Reader = v.Reader,
                             !.Resampler = IF v.Resampler = 0 THEN 0 ELSE 1]

(***************************************************************************)
(* Audio::FMultichannelLinearResampler (engine), at frame ratio r:         *)
(* n output frames need n * r input frames; a input frames give a \div r   *)
(* output frames; producing n output frames consumes n * r input frames.   *)
(***************************************************************************)
GetNumInputFramesNeededToProduceOutputFrames(r, n) == n * r
ProcessAndConsumeAudio(r, avail, n) == Min(n, avail \div r)

\* TCircularAudioBuffer::Push into a ring of the given capacity
Push(held, n, capacity) == Min(capacity, held + n)

(***************************************************************************)
(* The random stream of one block.  Every variate the block draws takes    *)
(* the stream's value for that kind of variate:                            *)
(*   u     0 or 1: FRandRange(lo, hi) is lo or hi                          *)
(*   rev   TRUE: FRandRange(0,100) is below every positive Reverse Chance  *)
(*         FALSE: it is above every Reverse Chance below 100               *)
(*   jit   -1, 0 or 1: FRandRange(-1, 1)                                   *)
(* and the external reader's answers to TriggerGrain in that block:        *)
(*   readerOk  FSoundWaveProxyReader::Create succeeds                      *)
(*   segRead   a reversed grain's up-front PopAudio returns the frames     *)
(* and what the reader of the first voice delivers to the render loop:     *)
(*   "all"   every PopAudio returns a full chunk                           *)
(*   "part"  the first PopAudio returns a chunk less a frame, the next     *)
(*           ones nothing                                                  *)
(*   "none"  PopAudio returns nothing (end of stream, or HasFailed())      *)
(* The readers of the other voices deliver full chunks.                    *)
(***************************************************************************)
dLow ==
    [u |-> 0, rev |-> TRUE, jit |-> 0, readerOk |-> TRUE, segRead |-> TRUE, read |-> "all"]
dHigh ==
    [u |-> 1, rev |-> FALSE, jit |-> 1, readerOk |-> TRUE, segRead |-> TRUE, read |-> "all"]
dEarly ==
    [u |-> 1, rev |-> TRUE, jit |-> -1, readerOk |-> TRUE, segRead |-> FALSE, read |-> "all"]
dNoReader ==
    [u |-> 0, rev |-> FALSE, jit |-> 0, readerOk |-> FALSE, segRead |-> TRUE, read |-> "all"]
dPart ==
    [u |-> 0, rev |-> FALSE, jit |-> 0, readerOk |-> TRUE, segRead |-> TRUE, read |-> "part"]
dNone ==
    [u |-> 1, rev |-> FALSE, jit |-> 0, readerOk |-> TRUE, segRead |-> TRUE, read |-> "none"]
FRandRange(d, lo, hi) == IF d.u = 0 THEN lo ELSE hi
\* what the reader of voice i delivers in the block
ReadOutcome(d, i) == IF i = 1 THEN d.read ELSE "all"

(***************************************************************************)
(* The operator object as a record, and the observation of a step.         *)
(***************************************************************************)
Self ==
    [op |-> op, SampleRate |-> SampleRate, BlockSize |-> BlockSize,
     bIsPlaying |-> bIsPlaying, SamplesUntilNextGrain |-> SamplesUntilNextGrain,
     GrainVoices |-> GrainVoices, CurrentWaveProxy |-> CurrentWaveProxy,
     CachedSoundWaveDuration |-> CachedSoundWaveDuration,
     CurrentNumChannels |-> CurrentNumChannels, ConvertDeinterleave |-> ConvertDeinterleave,
     OnPlayTrigger |-> OnPlayTrigger, OnFinishedTrigger |-> OnFinishedTrigger,
     OnGrainTriggered |-> OnGrainTriggered, AudioOutputLeft |-> AudioOutputLeft,
     AudioOutputRight |-> AudioOutputRight, OutputGrain |-> OutputGrain,
     bPreviousFreezeState |-> bPreviousFreezeState,
     CurrentPlaybackPositionSeconds |-> CurrentPlaybackPositionSeconds,
     PrevGrainValue |-> PrevGrainValue, blk |-> blk]

Install(o) ==
    /\ op' = o.op /\ SampleRate' = o.SampleRate /\ BlockSize' = o.BlockSize
    /\ bIsPlaying' = o.bIsPlaying
    /\ SamplesUntilNextGrain' = o.SamplesUntilNextGrain
    /\ GrainVoices' = [i \in DOMAIN o.GrainVoices |-> Untracked(o.GrainVoices[i])]
    /\ CurrentWaveProxy' = o.CurrentWaveProxy
    /\ CachedSoundWaveDuration' = o.CachedSoundWaveDuration
    /\ CurrentNumChannels' = o.CurrentNumChannels
    /\ ConvertDeinterleave' = o.ConvertDeinterleave
    /\ OnPlayTrigger' = o.OnPlayTrigger
    /\ OnFinishedTrigger' = o.OnFinishedTrigger
    /\ OnGrainTriggered' = o.OnGrainTriggered
    /\ AudioOutputLeft' = o.AudioOutputLeft
    /\ AudioOutputRight' = o.AudioOutputRight
    /\ OutputGrain' = o.OutputGrain
    /\ bPreviousFreezeState' = o.bPreviousFreezeState
    /\ CurrentPlaybackPositionSeconds' = o.CurrentPlaybackPositionSeconds
    /\ PrevGrainValue' = o.PrevGrainValue
    /\ blk' = o.blk

\* What a step is observed to have done (no part of the program's state).
\*   kind          "Init", "Execute" or "Reset"
\*   wasPlaying    bIsPlaying when the step began
\*   stop, play    the frames of the block's Stop and Play triggers
\*   playOk        every TryStartPlayback of the block returned true
\*   trigPlaying   bIsPlaying after the Stop and Play triggers were handled
\*   trigFinished  number of OnFinished events after the triggers were handled
\*   stopPending   bTriggeredStopThisBlock when the Play loop has run
\*   rebind        the asset check of a Playing block:
\*                 "none", "ok", "fail" (InitializeWaveData failed), "invalid"
\*   sanity        the channel/deinterleaver/duration check stopped the block
\*   due           grains the scheduler found due in the block
\*   grain         the start and duration (ms) TriggerGrain last committed, and
\*                 the TotalGrainSamples it gave the voice
\*   readFailed    the voices whose reader gave no frames to a read of the block
\*   lowest        the lowest SamplesRemaining the render loop left a voice with,
\*                 if that is below 0
\*   committed     number of TriggerGrain calls of the block that returned true
\*   failed        the slots a TriggerGrain of the block chose and then gave up
\*   segment       GS: the source segment of the grain TriggerGrain last committed,
\*                 Chance the Reverse Chance input it was resolved with, Target
\*                 the conceptual position (start point plus offset, wrapped),
\*                 Needed the source material the grain needs (duration times
\*                 frame ratio), Asset the cached asset duration (all in ms)
\*   warm          GS: what the last TryStartPlayback that returned true did
\*                 after OnPlay: enabled the Warm Start input, attempts the
\*                 passes of the warm-start loop, frames the frames they were
\*                 given, sung the countdown it set, and (Warm Start enabled)
\*                 the Active Voices (hundredths) and Grain Duration (ms)
\*                 inputs and the cached asset duration (ms) it read
\*   toggled       Smooth: the freeze state of the block differs from that of
\*                 the block before
\*   speed         Smooth: the Playback Speed the block read, clamped (percent)
\*   refill        GS, Step8: for each voice the render loop refilled, the input
\*                 frames its resampler needed for the block, the capacity of
\*                 its ring, and the chunk reads its refill loop made (up to
\*                 and including the first that added nothing)
\*   passes        the passes of the scheduler loop in the block
\*   step          the least amount a pass of the scheduler loop added to the
\*                 countdown (0 if the loop made no pass)
\*   Fields that no step has written hold their value in NoBlk.
NoWarm ==
    [enabled |-> FALSE, attempts |-> 0, frames |-> {}, sung |-> 0, activeVoices |-> 0,
     duration |-> 0, asset |-> 0]

NoBlk ==
    [kind |-> "Init", wasPlaying |-> FALSE, stop |-> <<>>, play |-> <<>>, playOk |-> FALSE,
     trigPlaying |-> FALSE, trigFinished |-> 0, rebind |-> "none", sanity |-> FALSE,
     stopPending |-> FALSE, due |-> 0, grain |-> [StartTime |-> 0, Duration |-> 0, Samples |-> 0],
     readFailed |-> {}, lowest |-> 0, committed |-> 0, failed |-> {},
     segment |-> [Reversed |-> FALSE, Chance |-> 0, Start |-> 0, End |-> 0, Target |-> 0,
                  Needed |-> 0, Asset |-> 0],
     warm |-> NoWarm, toggled |-> FALSE, speed |-> 0,
     refill |-> {}, passes |-> 0, step |-> 0]

AllZero(buffer) == buffer = {}
\* AudioOutputLeft->Zero(); AudioOutputRight->Zero();
ZeroOutputs(o) == [o EXCEPT !.AudioOutputLeft = {}, !.AudioOutputRight = {}]
\* Audio::ArrayMixIn of voice i into both outputs
MixIn(o, i) ==
    [o EXCEPT !.AudioOutputLeft = @ \cup {i}, !.AudioOutputRight = @ \cup {i}]
\* what is left in a buffer that is not cleared at the start of a block
Stale(buffer) == IF buffer = {} THEN {} ELSE {0}

\* a teardown that clears the asset reference and keeps what was cached for it
ClearWaveData_KeepsCache(o) == [o EXCEPT !.CurrentWaveProxy = "None"]

\* CurrentWaveProxy.Reset(); CachedSoundWaveDuration = 0; CurrentNumChannels = 0;
\* ConvertDeinterleave.Reset();
ClearWaveData(o) ==
    [o EXCEPT !.CurrentWaveProxy = "None", !.CachedSoundWaveDuration = 0,
              !.CurrentNumChannels = 0, !.ConvertDeinterleave = FALSE]

(***************************************************************************)
(* FGranularSynthOperator                                                  *)
(***************************************************************************)
\* The parameter inputs of a block.  ActiveVoicesX100 is Active Voices in
\* hundredths; PitchShift is in semitones (Pitch Rand is 0).
GS_Params1 ==
    [GrainDurationMs |-> 8, DurationRandMs |-> 0, ActiveVoicesX100 |-> 100,
     TimeJitter |-> 50, StartPoint |-> 0, StartPointRandMs |-> 0, ReverseChance |-> 0,
     PitchShift |-> 0, WarmStart |-> FALSE]
GS_Params2 ==
    [GrainDurationMs |-> 8, DurationRandMs |-> 4, ActiveVoicesX100 |-> 400,
     TimeJitter |-> 0, StartPoint |-> 10, StartPointRandMs |-> 8, ReverseChance |-> 50,
     PitchShift |-> 12, WarmStart |-> TRUE]
GS_Params3 ==
    [GrainDurationMs |-> 2, DurationRandMs |-> 0, ActiveVoicesX100 |-> 50,
     TimeJitter |-> 0, StartPoint |-> 3, StartPointRandMs |-> 7, ReverseChance |-> 100,
     PitchShift |-> 0, WarmStart |-> TRUE]

\* the parameter values and the draws of one block
GSScenes ==
    {[p |-> GS_Params1, d |-> d] : d \in {dHigh, dEarly, dNoReader, dPart, dNone}}
        \cup {[p |-> GS_Params2, d |-> d] : d \in {dLow, dHigh, dEarly}}
        \cup {[p |-> GS_Params3, d |-> d] : d \in {dLow, dHigh}}

GS_InitializeWaveData(o, proxy) ==
    LET o1 == [o EXCEPT !.CurrentWaveProxy = proxy]
        dur == NumFramesInWave(proxy) \div Max(1, WaveSampleRate(proxy))
        ch == NumChannelsOf(proxy)
        fail == [o |-> ClearWaveData(o1), ok |-> FALSE]
    IN  IF ~TempReaderIsValid(proxy) THEN fail
        ELSE IF ch <= 0 \/ dur <= 0 THEN fail
        ELSE IF ~DeinterleaveCreate(ch) THEN fail
        ELSE [o |-> [o1 EXCEPT !.CachedSoundWaveDuration = dur, !.CurrentNumChannels = ch,
                               !.ConvertDeinterleave = TRUE],
              ok |-> TRUE]

\* a segment that always ends at the conceptual position
GS_ActualSegmentEnd_AtTarget(D, ActualSegmentStart, Needed, ConceptualEnd) ==
    Min(D, ConceptualEnd)

\* a segment end that is not held inside the asset
GS_ActualSegmentEnd_Unclamped(D, ActualSegmentStart, Needed, ConceptualEnd) ==
    IF ActualSegmentStart = 0 /\ Needed > 0 THEN Needed ELSE ConceptualEnd

\* ActualSegmentEnd of a reversed grain: the conceptual position, or the end
\* of the source material needed when the segment starts at the asset start
GS_ActualSegmentEnd(D, ActualSegmentStart, Needed, ConceptualEnd) ==
    IF ActualSegmentStart = 0 /\ Needed > 0 THEN Min(D, Needed)
    ELSE Min(D, ConceptualEnd)

\* the per-grain parameter resolution of Execute (and of the warm start)
GS_ResolveGrain(o, p, d) ==
    LET BaseGrainDurationSeconds == Max(MinGrainDurationSeconds, p.GrainDurationMs)
        MaxDurationRandSeconds == Max(0, p.DurationRandMs)
        ReverseChanceVal == Clamp(p.ReverseChance, 0, 100)
        BasePitch == Clamp(p.PitchShift, -MaxAbsPitchShiftSemitones, MaxAbsPitchShiftSemitones)
        D == o.CachedSoundWaveDuration
        ConceptualStartPointSecs ==
            p.StartPoint + FRandRange(d, 0, Max(0, p.StartPointRandMs))
        FinalOutputGrainDurationSeconds ==
            Max(MinGrainDurationSeconds,
                BaseGrainDurationSeconds + FRandRange(d, 0, MaxDurationRandSeconds))
        OutputGrainDurationSamples == Max(1, FinalOutputGrainDurationSeconds * o.SampleRate)
        FinalTargetPitchShift ==
            Clamp(BasePitch, -MaxAbsPitchShiftSemitones, MaxAbsPitchShiftSemitones)
        FrameRatio == Pow2Semitones(FinalTargetPitchShift)
        bReverse == IF d.rev THEN ReverseChanceVal > 0 ELSE ReverseChanceVal >= 100
        SourceMaterialNeededSeconds == FinalOutputGrainDurationSeconds * FrameRatio
        ConceptualSegmentEndInSource == Fmod(ConceptualStartPointSecs, D)
        ConceptualSegmentStartInSource ==
            ConceptualSegmentEndInSource - SourceMaterialNeededSeconds
        ActualSegmentStart == Max(0, ConceptualSegmentStartInSource)
        ActualSegmentEnd ==
            GS_ActualSegmentEnd(D, ActualSegmentStart, SourceMaterialNeededSeconds,
                                ConceptualSegmentEndInSource)
        segValid == /\ SourceMaterialNeededSeconds > 0
                    /\ ActualSegmentStart < ActualSegmentEnd
        NumSourceFrames ==
            IF segValid THEN (ActualSegmentEnd - ActualSegmentStart) * o.SampleRate ELSE 0
        ForwardStart ==
            Max(0, Min(Fmod(ConceptualStartPointSecs, D), D - MinGrainDurationSeconds))
    IN  [valid |-> IF bReverse THEN segValid /\ NumSourceFrames > 0 ELSE TRUE,
         Duration |-> FinalOutputGrainDurationSeconds,
         DurationSamples |-> OutputGrainDurationSamples,
         Pitch |-> FinalTargetPitchShift, FrameRatio |-> FrameRatio,
         bIsReversed |-> bReverse,
         ReaderStartTime |-> IF bReverse THEN (IF SourceMaterialNeededSeconds > 0
                                               THEN ActualSegmentStart ELSE 0)
                             ELSE ForwardStart,
         SegmentEnd |-> IF bReverse THEN ActualSegmentEnd ELSE 0,
         NumSourceFrames |-> IF bReverse THEN NumSourceFrames ELSE 0,
         ReverseChance |-> ReverseChanceVal,
         ConceptualPosition |-> Fmod(ConceptualStartPointSecs, D),
         SourceMaterialNeeded |-> SourceMaterialNeededSeconds,
         AssetDuration |-> D]

\* a TriggerGrain that adds a voice to the pool for the grain
GS_TriggerGrain_Grow(o, g, d) ==
    [o |-> [o EXCEPT !.GrainVoices =
                         Append(@, [FGrainVoice EXCEPT !.bIsActive = TRUE, !.Reader = TRUE,
                                                       !.Resampler = g.FrameRatio,
                                                       !.NumChannels = o.CurrentNumChannels,
                                                       !.SamplesRemaining = g.DurationSamples,
                                                       !.TotalGrainSamples = g.DurationSamples]),
                     !.blk.grain = [StartTime |-> g.ReaderStartTime, Duration |-> g.Duration,
                                    Samples |-> g.DurationSamples]],
     ok |-> TRUE]

\* a TriggerGrain that marks the slot active before it creates the reader
GS_TriggerGrain_ActiveFirst(o, g, d) ==
    LET idx == FirstInactive(o.GrainVoices)
        FramesActuallyRead == IF d.segRead THEN g.NumSourceFrames ELSE 0
        Samples == IF g.bIsReversed
                   THEN Max(1, Min(g.DurationSamples,
                                   Max(1, CeilDiv(FramesActuallyRead, g.FrameRatio))))
                   ELSE g.DurationSamples
        nv0 == [o.GrainVoices[idx] EXCEPT !.NumChannels = o.CurrentNumChannels,
                                          !.bIsReversed = g.bIsReversed,
                                          !.FullGrainSegmentReadOffset = 0,
                                          !.FullGrainSegmentBuffer = 0,
                                          !.bIsActive = TRUE, !.Age = 0,
                                          !.SamplesRemaining = Samples,
                                          !.SamplesPlayed = 0,
                                          !.TotalGrainSamples = Samples]
        nvOn == [nv0 EXCEPT !.Reader = ~g.bIsReversed, !.Resampler = g.FrameRatio,
                            !.SourceCircularBuffer = 0,
                            !.FullGrainSegmentBuffer =
                                IF g.bIsReversed THEN FramesActuallyRead ELSE 0]
    IN  IF ~ProxyIsValid(o.CurrentWaveProxy) \/ o.CurrentNumChannels <= 0
           \/ o.CachedSoundWaveDuration < MinGrainDurationSeconds
           \/ g.DurationSamples <= 0 \/ (g.bIsReversed /\ g.NumSourceFrames <= 0) \/ idx = 0
        THEN [o |-> o, ok |-> FALSE]
        ELSE IF ~d.readerOk \/ (g.bIsReversed /\ FramesActuallyRead <= 0)
        THEN [o |-> [o EXCEPT !.GrainVoices[idx] = [nv0 EXCEPT !.Reader = FALSE],
                              !.blk.failed = @ \cup {idx}],
              ok |-> FALSE]
        ELSE [o |-> [o EXCEPT !.GrainVoices[idx] = nvOn,
                              !.blk.grain = [StartTime |-> g.ReaderStartTime,
                                             Duration |-> g.Duration,
                                             Samples |-> Samples],
                              !.blk.committed = @ + 1],
              ok |-> TRUE]

GS_TriggerGrain(o, g, d) ==
    LET idx == FirstInactive(o.GrainVoices)
        nv0 == [o.GrainVoices[idx] EXCEPT !.NumChannels = o.CurrentNumChannels,
                                          !.bIsReversed = g.bIsReversed,
                                          !.FullGrainSegmentReadOffset = 0,
                                          !.FullGrainSegmentBuffer = 0]
        \* NewVoice.Reader = Create(...): null when the creation fails
        nvNoReader == [nv0 EXCEPT !.Reader = FALSE]
        nv1 == [nv0 EXCEPT !.Reader = TRUE, !.Resampler = g.FrameRatio,
                           !.SourceCircularBuffer = 0]
        FramesActuallyRead == IF d.segRead THEN g.NumSourceFrames ELSE 0
        MaxPossible == Max(1, CeilDiv(FramesActuallyRead, g.FrameRatio))
        ActualOutputGrainSamples ==
            IF g.bIsReversed THEN Max(1, Min(g.DurationSamples, MaxPossible))
            ELSE g.DurationSamples
        nvOn == [nv1 EXCEPT !.Reader = ~g.bIsReversed,
                            !.FullGrainSegmentBuffer =
                                IF g.bIsReversed THEN FramesActuallyRead ELSE 0,
                            !.bIsActive = TRUE,
                            !.SamplesRemaining = ActualOutputGrainSamples,
                            !.SamplesPlayed = 0,
                            !.TotalGrainSamples = ActualOutputGrainSamples,
                            !.Age = 0]
        with(nv) == [o EXCEPT !.GrainVoices[idx] = nv]
    IN  IF ~ProxyIsValid(o.CurrentWaveProxy) \/ o.CurrentNumChannels <= 0
           \/ o.CachedSoundWaveDuration < MinGrainDurationSeconds
        THEN [o |-> o, ok |-> FALSE]
        ELSE IF g.DurationSamples <= 0 THEN [o |-> o, ok |-> FALSE]
        ELSE IF g.bIsReversed /\ g.NumSourceFrames <= 0 THEN [o |-> o, ok |-> FALSE]
        ELSE IF idx = 0 THEN [o |-> o, ok |-> FALSE]
        ELSE IF ~d.readerOk
             THEN [o |-> [with(nvNoReader) EXCEPT !.blk.failed = @ \cup {idx}], ok |-> FALSE]
        ELSE IF g.bIsReversed /\ FramesActuallyRead <= 0
             THEN [o |-> [with([nv1 EXCEPT !.Reader = FALSE]) EXCEPT
                             !.blk.failed = @ \cup {idx}],
                   ok |-> FALSE]
        ELSE [o |-> [with(nvOn) EXCEPT
                        !.blk.grain = [StartTime |-> g.ReaderStartTime,
                                       Duration |-> g.Duration,
                                       Samples |-> ActualOutputGrainSamples],
                        !.blk.committed = @ + 1,
                        !.blk.segment = [Reversed |-> g.bIsReversed,
                                         Chance |-> g.ReverseChance,
                                         Start |-> g.ReaderStartTime,
                                         End |-> g.SegmentEnd,
                                         Target |-> g.ConceptualPosition,
                                         Needed |-> g.SourceMaterialNeeded,
                                         Asset |-> g.AssetDuration]],
              ok |-> TRUE]

\* a pass that writes the telemetry of the grain before it tries to commit it
GS_SpawnGrain_WritesFirst(o, p, d, frame) ==
    LET Committed(t) ==
            IF ~t.ok THEN t.o ELSE [t.o EXCEPT !.OnGrainTriggered = Append(@, frame)]
        Resolved(g) ==
            IF ~g.valid THEN o
            ELSE Committed(GS_TriggerGrain([o EXCEPT !.OutputGrain =
                                                        [StartTime |-> g.ReaderStartTime,
                                                         Duration |-> g.Duration,
                                                         IsReversed |-> g.bIsReversed,
                                                         Pitch |-> g.Pitch]],
                                           g, d))
    IN  Resolved(GS_ResolveGrain(o, p, d))

\* one pass of a grain loop: resolve, commit, and on success write the
\* telemetry and the OnGrain event
GS_SpawnGrain(o, p, d, frame) ==
    LET Committed(g, t) ==
            IF ~t.ok THEN t.o
            ELSE [t.o EXCEPT !.OutputGrain = [StartTime |-> g.ReaderStartTime,
                                              Duration |-> g.Duration,
                                              IsReversed |-> g.bIsReversed,
                                              Pitch |-> g.Pitch],
                             !.OnGrainTriggered = Append(@, frame)]
        Resolved(g) == IF ~g.valid THEN o ELSE Committed(g, GS_TriggerGrain(o, g, d))
    IN  Resolved(GS_ResolveGrain(o, p, d))

RECURSIVE GS_WarmStartLoop(_, _, _, _, _)
GS_WarmStartLoop(o, n, p, d, frame) ==
    IF n <= 0 THEN o
    ELSE GS_WarmStartLoop(GS_SpawnGrain([o EXCEPT !.blk.warm.attempts = @ + 1,
                                                  !.blk.warm.frames = @ \cup {frame}],
                                        p, d, frame),
                          n - 1, p, d, frame)

\* a warm start that takes the floor of Active Voices, fractional or not
GS_NumVoicesToWarmStart_Floor(p) == Clamp(p.ActiveVoicesX100 \div 100, 0, MaxGrainVoices)

\* NumVoicesToWarmStart: FloorToInt(Active Voices), 1 for a positive fraction,
\* clamped to the pool
GS_NumVoicesToWarmStart(p) ==
    Clamp(IF p.ActiveVoicesX100 < 100 /\ p.ActiveVoicesX100 > 0 THEN 1
          ELSE p.ActiveVoicesX100 \div 100,
          0, MaxGrainVoices)

GS_BaseInterval(o, p) ==
    LET BaseGrainDurationSeconds == Max(MinGrainDurationSeconds, p.GrainDurationMs)
        \* FMath::Max(MinActiveVoicesParam, *ActiveVoicesInput), in hundredths
        EffectiveActiveVoicesX100 == Max(1, p.ActiveVoicesX100)
    IN  (BaseGrainDurationSeconds * o.SampleRate * 100) \div EffectiveActiveVoicesX100

GS_TryStartPlayback(o, asset, p, d, frame) ==
    LET o0 == [o EXCEPT !.bIsPlaying = FALSE]
        failed == [o |-> ClearWaveData(ResetVoices(o0)), ok |-> FALSE]
        NumVoicesToWarmStart == GS_NumVoicesToWarmStart(p)
        \* o1: the engine once bIsPlaying is set and OnPlay is emitted
        Started(o1) ==
            IF p.WarmStart /\ ProxyIsValid(o1.CurrentWaveProxy)
               /\ o1.CachedSoundWaveDuration >= MinGrainDurationSeconds /\ o1.SampleRate > 0
            THEN [o |-> [GS_WarmStartLoop(
                             [o1 EXCEPT !.blk.warm =
                                            [NoWarm EXCEPT
                                                !.enabled = TRUE,
                                                !.activeVoices = p.ActiveVoicesX100,
                                                !.duration = p.GrainDurationMs,
                                                !.asset = o1.CachedSoundWaveDuration]],
                             NumVoicesToWarmStart, p, d, frame)
                            EXCEPT !.SamplesUntilNextGrain = GS_BaseInterval(o, p),
                                   !.blk.warm.sung = GS_BaseInterval(o, p)],
                  ok |-> TRUE]
            ELSE [o |-> [o1 EXCEPT !.SamplesUntilNextGrain = 0,
                                   !.blk.warm =
                                       IF p.WarmStart
                                       THEN [NoWarm EXCEPT
                                               !.enabled = TRUE,
                                               !.activeVoices = p.ActiveVoicesX100,
                                               !.duration = p.GrainDurationMs,
                                               !.asset = o1.CachedSoundWaveDuration]
                                       ELSE NoWarm],
                  ok |-> TRUE]
        \* init: the result of InitializeWaveData
        Bound(init) ==
            IF ~init.ok THEN [o |-> ClearWaveData(ResetVoices(init.o)), ok |-> FALSE]
            ELSE Started([ResetVoices(init.o) EXCEPT !.bIsPlaying = TRUE,
                                                     !.OnPlayTrigger = Append(@, frame)])
    IN  IF ~IsSoundWaveValid(asset) THEN failed
        ELSE IF ~ProxyIsValid(asset) THEN failed
        ELSE Bound(GS_InitializeWaveData(o0, asset))

\* FSoundWaveProxyReader::PopAudio of a forward voice: the frames the reader
\* gives to the calls-th read (from 0) of a block, by the block's outcome
PopAudio(outcome, calls) ==
    CASE outcome = "all" -> DeinterleaveBlockSizeFrames
      [] outcome = "part" -> IF calls = 0 THEN DeinterleaveBlockSizeFrames - 1 ELSE 0
      [] OTHER -> 0

\* capacity of a voice's ring buffer
GS_RingCapacity(o) == DeinterleaveBlockSizeFrames + o.BlockSize * MaxFrameRatio

\* returns the voice and whether the reader was read and gave nothing
GS_GenerateSourceAudio(o, v, outcome, calls) ==
    LET rem == v.FullGrainSegmentBuffer - v.FullGrainSegmentReadOffset
        copy == Min(DeinterleaveBlockSizeFrames, rem)
        popped == PopAudio(outcome, calls)
    IN  IF ~o.bIsPlaying \/ ~o.ConvertDeinterleave THEN [v |-> v, failed |-> FALSE]
        ELSE IF v.bIsReversed
        THEN IF v.FullGrainSegmentBuffer > 0 /\ rem > 0 /\ copy > 0
             THEN [v |-> [v EXCEPT !.SourceCircularBuffer = Push(@, copy, GS_RingCapacity(o)),
                                   !.FullGrainSegmentReadOffset = @ + copy],
                   failed |-> FALSE]
             ELSE [v |-> v, failed |-> FALSE]
        ELSE IF v.Reader
        THEN [v |-> [v EXCEPT !.SourceCircularBuffer = Push(@, popped, GS_RingCapacity(o))],
              failed |-> popped = 0]
        ELSE [v |-> v, failed |-> FALSE]

\* the refill loop of the render pass
RECURSIVE GS_Refill(_, _, _, _, _)
GS_Refill(o, v, outcome, needed, calls) ==
    IF ~(v.SourceCircularBuffer < needed /\ needed > 0)
    THEN [v |-> v, failed |-> FALSE, reads |-> calls]
    ELSE LET Generated(g) ==
                 IF g.v.SourceCircularBuffer = v.SourceCircularBuffer
                 THEN [v |-> g.v, failed |-> g.failed, reads |-> calls + 1]
                 ELSE GS_Refill(o, g.v, outcome, needed, calls + 1)
         IN  Generated(GS_GenerateSourceAudio(o, v, outcome, calls))

\* a render pass that counts a whole block for the voice, whatever is left
\* of the grain, and releases the voice only once the count is below 0
GS_RenderVoice_WholeBlock(o, i, outcome) ==
    LET v == o.GrainVoices[i]
        left == v.SamplesRemaining - o.BlockSize
        v2 == [v EXCEPT !.SamplesPlayed = @ + o.BlockSize, !.SamplesRemaining = left,
                        !.Age = Min(MaxAge, @ + 1)]
    IN  IF ~v.bIsActive THEN o
        ELSE MixIn([o EXCEPT !.GrainVoices[i] = IF left < 0 THEN Deactivate(v2) ELSE v2,
                             !.blk.lowest = Min(@, left)], i)

\* the body of the render loop for voice i
GS_RenderVoice(o, i, outcome) ==
    LET v == o.GrainVoices[i]
        N == Max(0, Min(o.BlockSize, v.SamplesRemaining))
        can == (v.bIsReversed \/ v.Reader) /\ v.Resampler # 0 /\ v.TotalGrainSamples > 0
        needed == GetNumInputFramesNeededToProduceOutputFrames(v.Resampler, N)
        Finished(v2) == IF v2.SamplesRemaining <= 0 THEN Deactivate(v2) ELSE v2
        Mixed(o1, FramesSuccessfullyResampled) ==
            IF FramesSuccessfullyResampled > 0 THEN MixIn(o1, i) ELSE o1
        Consumed(f, FramesSuccessfullyResampled) ==
            Mixed([o EXCEPT
                     !.GrainVoices[i] =
                         Finished([f.v EXCEPT
                                     !.SourceCircularBuffer =
                                         @ - FramesSuccessfullyResampled * v.Resampler,
                                     !.SamplesPlayed = @ + N, !.SamplesRemaining = @ - N,
                                     !.Age = Min(MaxAge, @ + 1)]),
                     !.blk.lowest = Min(@, f.v.SamplesRemaining - N),
                     !.blk.readFailed = IF f.failed THEN @ \cup {i} ELSE @,
                     !.blk.refill = @ \cup {[needed |-> needed, reads |-> f.reads,
                                             capacity |-> GS_RingCapacity(o)]}],
                  FramesSuccessfullyResampled)
        \* f: the voice after the refill loop
        Filled(f) ==
            Consumed(f, IF can
                        THEN ProcessAndConsumeAudio(v.Resampler, f.v.SourceCircularBuffer, N)
                        ELSE 0)
    IN  IF ~v.bIsActive THEN o
        ELSE IF N <= 0 THEN [o EXCEPT !.GrainVoices[i] = Deactivate(v)]
        ELSE Filled(IF can THEN GS_Refill(o, v, outcome, needed, 0)
                    ELSE [v |-> v, failed |-> FALSE, reads |-> 0])

RECURSIVE GS_Render(_, _, _)
GS_Render(o, i, d) ==
    IF i > Len(o.GrainVoices) THEN o
    ELSE GS_Render(GS_RenderVoice(o, i, ReadOutcome(d, i)), i + 1, d)

\* a scheduler that restarts the countdown at the interval after a grain
Schedule_Restart(sung, elapsed, interval, n) ==
    IF sung <= elapsed THEN [n |-> n + 1, sung |-> interval]
    ELSE [n |-> n, sung |-> sung - elapsed]

\* a scheduler that adds one interval, however far the countdown is behind
Schedule_Once(sung, elapsed, interval, n) ==
    IF sung <= elapsed THEN [n |-> n + 1, sung |-> sung + interval - elapsed]
    ELSE [n |-> n, sung |-> sung - elapsed]

\* the scheduler loop: grains due in the block and the new countdown
RECURSIVE Schedule(_, _, _, _)
Schedule(sung, elapsed, interval, n) ==
    IF sung <= elapsed THEN Schedule(sung + interval, elapsed, interval, n + 1)
    ELSE [n |-> n, sung |-> sung - elapsed]

RECURSIVE GS_GrainLoop(_, _, _, _, _, _)
GS_GrainLoop(o, i, n, p, d, base) ==
    IF i >= n THEN o
    ELSE LET ApproxTimeOfThisGrainSpawn ==
                 o.BlockSize - (o.SamplesUntilNextGrain + (n - 1 - i) * base)
             TriggerFrameInBlock == Clamp(ApproxTimeOfThisGrainSpawn, 0, o.BlockSize - 1)
         IN  GS_GrainLoop(GS_SpawnGrain(o, p, d, TriggerFrameInBlock), i + 1, n, p, d, base)

\* a Play loop that emits no OnFinished for a Play that fails
RECURSIVE GS_PlayLoop_Silent(_, _, _, _, _)
GS_PlayLoop_Silent(o, frames, asset, p, d) ==
    IF frames = <<>> THEN o
    ELSE LET Tried(t) ==
                 IF t.ok THEN t.o
                 ELSE [t.o EXCEPT !.bIsPlaying = FALSE, !.blk.playOk = FALSE]
         IN  GS_PlayLoop_Silent(Tried(GS_TryStartPlayback(o, asset, p, d, Head(frames))),
                                Tail(frames), asset, p, d)

\* the loop over the Play triggers of the block
RECURSIVE GS_PlayLoop(_, _, _, _, _)
GS_PlayLoop(o, frames, asset, p, d) ==
    IF frames = <<>> THEN o
    ELSE LET Tried(t) ==
                 IF t.ok THEN t.o
                 ELSE [t.o EXCEPT !.OnFinishedTrigger = Append(@, Head(frames)),
                                  !.bIsPlaying = FALSE, !.blk.playOk = FALSE]
         IN  GS_PlayLoop(Tried(GS_TryStartPlayback(o, asset, p, d, Head(frames))),
                         Tail(frames), asset, p, d)

\* the observation at the start of an Execute
StartBlk(o, stop, play) ==
    [NoBlk EXCEPT !.kind = "Execute", !.wasPlaying = o.bIsPlaying, !.stop = stop,
                  !.play = play, !.playOk = play # <<>>]

\* a stop that emits no OnFinished
StopAtFrame0_Silent(o) == ZeroOutputs([ResetVoices(o) EXCEPT !.bIsPlaying = FALSE])

\* a stop that leaves the voices as they are
StopAtFrame0_KeepVoices(o) ==
    ZeroOutputs([o EXCEPT !.bIsPlaying = FALSE, !.OnFinishedTrigger = Append(@, 0)])

\* ResetVoices(); bIsPlaying = false; OnFinishedTrigger->TriggerFrame(0); outputs zeroed
StopAtFrame0(o) ==
    ZeroOutputs([ResetVoices(o) EXCEPT !.bIsPlaying = FALSE,
                                       !.OnFinishedTrigger = Append(@, 0)])

\* Execute from the parameter read to the end of the render loop
GS_ExecutePlaying(o, p, d, bWaveJustChanged) ==
    LET base == GS_BaseInterval(o, p)
        TimeJitterPercent == Clamp(p.TimeJitter, 0, 100)
        JitteredInterval ==
            Max(MinSamplesPerGrainInterval, base + (d.jit * base * TimeJitterPercent) \div 100)
        \* s: the grains due in the block and the new countdown
        Scheduled(s) ==
            GS_GrainLoop([o EXCEPT
                            !.AudioOutputLeft = IF bWaveJustChanged THEN Stale(@) ELSE {},
                            !.AudioOutputRight = IF bWaveJustChanged THEN Stale(@) ELSE {},
                            !.SamplesUntilNextGrain = s.sung, !.blk.due = s.n,
                            !.blk.passes = s.n,
                            !.blk.step = IF s.n = 0 THEN 0 ELSE JitteredInterval],
                         0, s.n, p, d, base)
    IN  GS_Render(Scheduled(Schedule(o.SamplesUntilNextGrain, o.BlockSize,
                                     JitteredInterval, 0)),
                  1, d)

GS_Execute(o, stop, play, asset, p, d) ==
    LET o0 == [o EXCEPT !.OnPlayTrigger = <<>>, !.OnFinishedTrigger = <<>>,
                        !.OnGrainTriggered = <<>>,
                        !.blk = StartBlk(o, stop, play)]
        bTriggeredStopThisBlock == o.bIsPlaying /\ stop # <<>> /\ play = <<>>
        \* o4: the engine after the asset check
        Checked(o4, changed) ==
            IF o4.CurrentNumChannels <= 0 \/ ~o4.ConvertDeinterleave
               \/ o4.CachedSoundWaveDuration < MinGrainDurationSeconds
            THEN StopAtFrame0([o4 EXCEPT !.blk.sanity = TRUE])
            ELSE GS_ExecutePlaying(o4, p, d, changed)
        \* init: the result of InitializeWaveData on a changed asset
        Rebound(init) ==
            IF ~init.ok THEN StopAtFrame0([init.o EXCEPT !.blk.rebind = "fail"])
            ELSE Checked([init.o EXCEPT !.blk.rebind = "ok"], TRUE)
        \* o3: the engine after the trigger phase
        Triggered(o3) ==
            IF ~o3.bIsPlaying
            THEN IF ProxyIsValid(o3.CurrentWaveProxy) \/ o3.CurrentNumChannels > 0
                    \/ o3.ConvertDeinterleave
                 THEN ZeroOutputs(ClearWaveData(ResetVoices(o3)))
                 ELSE ZeroOutputs(o3)
            ELSE IF ProxyIsValid(asset) /\ o3.CurrentWaveProxy # asset
            THEN Rebound(GS_InitializeWaveData(o3, asset))
            ELSE IF ~ProxyIsValid(asset) /\ ProxyIsValid(o3.CurrentWaveProxy)
            THEN StopAtFrame0([o3 EXCEPT !.blk.rebind = "invalid"])
            ELSE Checked(o3, FALSE)
        Observed(o2) == Triggered([o2 EXCEPT !.blk.trigPlaying = o2.bIsPlaying,
                                             !.blk.trigFinished = Len(o2.OnFinishedTrigger)])
        \* o1: the engine after the Play triggers
        Played(o1) ==
            Observed(IF bTriggeredStopThisBlock /\ o1.bIsPlaying
                     THEN [ResetVoices(o1) EXCEPT !.bIsPlaying = FALSE,
                                                  !.OnFinishedTrigger = Append(@, Head(stop))]
                     ELSE o1)
    IN  IF o.BlockSize <= 0
        THEN ZeroOutputs([o EXCEPT !.bIsPlaying = FALSE,
                                   !.OnFinishedTrigger = IF o.bIsPlaying THEN Append(@, 0) ELSE @,
                                   !.blk = StartBlk(o, stop, play)])
        ELSE Played(GS_PlayLoop(o0, play, asset, p, d))

(***************************************************************************)
(* FGranularSynthOperator_Step8                                            *)
(***************************************************************************)
\* GrainsPerSecondX10 is Grains Per Second in tenths.
Step8_Params1 ==
    [GrainDurationMs |-> 8, DurationRandMs |-> 0, GrainsPerSecondX10 |-> 1250,
     StartPoint |-> 0, EndPoint |-> 0, StartPointRandMs |-> 0, PitchShift |-> 0]
Step8_Params2 ==
    [GrainDurationMs |-> 8, DurationRandMs |-> 4, GrainsPerSecondX10 |-> 5000,
     StartPoint |-> 4, EndPoint |-> 0, StartPointRandMs |-> 8, PitchShift |-> 12]
Step8_Params3 ==
    [GrainDurationMs |-> 2, DurationRandMs |-> 0, GrainsPerSecondX10 |-> 2500,
     StartPoint |-> 2, EndPoint |-> 9, StartPointRandMs |-> 0, PitchShift |-> 0]

\* the parameter values and the draws of one block
Step8Scenes ==
    {[p |-> Step8_Params1, d |-> d] : d \in {dLow, dNoReader, dPart, dNone}}
        \cup {[p |-> Step8_Params2, d |-> d] : d \in {dLow, dHigh, dPart, dNone}}
        \cup {[p |-> Step8_Params3, d |-> d] : d \in {dLow}}

Step8_InitializeWaveData(o, proxy) ==
    LET o1 == [o EXCEPT !.CurrentWaveProxy = proxy]
        dur == NumFramesInWave(proxy) \div Max(1, WaveSampleRate(proxy))
        ch == NumChannelsOf(proxy)
    IN  IF ~TempReaderIsValid(proxy) THEN [o |-> o1, ok |-> FALSE]
        ELSE IF ch <= 0 \/ dur <= 0
        THEN [o |-> [o1 EXCEPT !.CurrentNumChannels = 0, !.CachedSoundWaveDuration = 0,
                               !.ConvertDeinterleave = FALSE],
              ok |-> FALSE]
        ELSE IF ~DeinterleaveCreate(ch)
        THEN [o |-> [o1 EXCEPT !.CurrentNumChannels = 0, !.CachedSoundWaveDuration = 0,
                               !.ConvertDeinterleave = FALSE],
              ok |-> FALSE]
        ELSE [o |-> [o1 EXCEPT !.CachedSoundWaveDuration = dur, !.CurrentNumChannels = ch,
                               !.ConvertDeinterleave = TRUE],
              ok |-> TRUE]

\* a TryStartPlayback that keeps the grains of the session it restarts
Step8_TryStartPlayback_KeepVoices(o, asset, frame) ==
    LET fin(x) == [x EXCEPT !.OnFinishedTrigger =
                       IF o.bIsPlaying THEN Append(@, frame) ELSE @]
        Bound(init) ==
            IF ~init.ok THEN [o |-> ResetVoices(fin(init.o)), ok |-> FALSE]
            ELSE [o |-> [init.o EXCEPT !.bIsPlaying = TRUE, !.SamplesUntilNextGrain = 0,
                                       !.OnPlayTrigger = Append(@, frame)],
                  ok |-> TRUE]
    IN  IF ~IsSoundWaveValid(asset) \/ ~ProxyIsValid(asset)
        THEN [o |-> ClearWaveData(ResetVoices(fin([o EXCEPT !.bIsPlaying = FALSE]))),
              ok |-> FALSE]
        ELSE Bound(Step8_InitializeWaveData([o EXCEPT !.bIsPlaying = FALSE], asset))

Step8_TryStartPlayback(o, asset, frame) ==
    LET bWasPlayingBeforeAttempt == o.bIsPlaying
        o0 == [o EXCEPT !.bIsPlaying = FALSE,
                        !.OnFinishedTrigger =
                            IF bWasPlayingBeforeAttempt THEN Append(@, frame) ELSE @]
        fin(x) == [x EXCEPT !.OnFinishedTrigger =
                       IF bWasPlayingBeforeAttempt THEN Append(@, frame) ELSE @]
        \* init: the result of InitializeWaveData
        Bound(init) ==
            IF ~init.ok THEN [o |-> ResetVoices(fin(init.o)), ok |-> FALSE]
            ELSE [o |-> [ResetVoices(init.o) EXCEPT !.bIsPlaying = TRUE,
                                                    !.SamplesUntilNextGrain = 0,
                                                    !.OnPlayTrigger = Append(@, frame)],
                  ok |-> TRUE]
    IN  IF ~IsSoundWaveValid(asset) THEN [o |-> ClearWaveData(ResetVoices(o0)), ok |-> FALSE]
        ELSE IF ~ProxyIsValid(asset) THEN [o |-> ClearWaveData(ResetVoices(o0)), ok |-> FALSE]
        ELSE Bound(Step8_InitializeWaveData([o EXCEPT !.bIsPlaying = FALSE], asset))

Step8_RingCapacity(o) == DeinterleaveBlockSizeFrames + o.BlockSize * 4

\* the per-grain parameter resolution of Execute
Step8_ResolveGrain(o, p, d) ==
    LET BaseGrainDurationSeconds == Max(MinGrainDurationSeconds, p.GrainDurationMs)
        MaxDurationRandSeconds == Max(0, p.DurationRandMs)
        BaseStartPointSeconds == Max(0, p.StartPoint)
        MaxStartPointRandSeconds == Max(0, p.StartPointRandMs)
        D == o.CachedSoundWaveDuration
        EffectiveEndPointSeconds == IF p.EndPoint <= 0 \/ p.EndPoint > D THEN D ELSE p.EndPoint
        ClampedBaseStartPointSeconds ==
            Min(BaseStartPointSeconds, EffectiveEndPointSeconds - MinGrainDurationSeconds)
        PotentialMaxStartTime == ClampedBaseStartPointSeconds + MaxStartPointRandSeconds
        ValidRegionEndTime == Max(0, EffectiveEndPointSeconds - MinGrainDurationSeconds)
        ClampedMaxStartTime0 ==
            Clamp(PotentialMaxStartTime, ClampedBaseStartPointSeconds, ValidRegionEndTime)
        ClampedMaxStartTime ==
            IF ClampedBaseStartPointSeconds > ClampedMaxStartTime0
            THEN ClampedBaseStartPointSeconds ELSE ClampedMaxStartTime0
        GrainDurationSeconds ==
            Max(MinGrainDurationSeconds,
                BaseGrainDurationSeconds + FRandRange(d, 0, MaxDurationRandSeconds))
        TargetPitchShift ==
            Clamp(Clamp(p.PitchShift, -MaxAbsPitchShiftSemitones, MaxAbsPitchShiftSemitones),
                  -MaxAbsPitchShiftSemitones, MaxAbsPitchShiftSemitones)
    IN  [StartTime |-> FRandRange(d, ClampedBaseStartPointSeconds, ClampedMaxStartTime),
         Duration |-> GrainDurationSeconds,
         DurationSamples |-> GrainDurationSeconds * o.SampleRate,
         FrameRatio |-> Pow2Semitones(TargetPitchShift)]

Step8_TriggerGrain(o, g, d) ==
    LET InStartTimeSeconds == Max(0, g.StartTime)
        idx == FirstInactive(o.GrainVoices)
        nv == [o.GrainVoices[idx] EXCEPT !.Reader = TRUE, !.NumChannels = o.CurrentNumChannels,
                                         !.Resampler = g.FrameRatio,
                                         !.SourceCircularBuffer = 0,
                                         !.bIsActive = TRUE,
                                         !.SamplesRemaining = g.DurationSamples,
                                         !.SamplesPlayed = 0,
                                         !.TotalGrainSamples = g.DurationSamples,
                                         !.Age = 0]
    IN  IF ~ProxyIsValid(o.CurrentWaveProxy) \/ g.DurationSamples <= 0
           \/ o.CurrentNumChannels <= 0
        THEN [o |-> o, ok |-> FALSE]
        ELSE IF idx = 0 THEN [o |-> o, ok |-> FALSE]
        ELSE IF ~d.readerOk
        THEN [o |-> [o EXCEPT !.GrainVoices[idx].Reader = FALSE,
                              !.blk.failed = @ \cup {idx}],
              ok |-> FALSE]
        ELSE [o |-> [o EXCEPT !.GrainVoices[idx] = nv,
                              !.blk.grain = [StartTime |-> InStartTimeSeconds,
                                             Duration |-> g.Duration,
                                             Samples |-> g.DurationSamples],
                              !.blk.committed = @ + 1],
              ok |-> TRUE]

\* a grain loop that emits OnGrain for every grain that came due
RECURSIVE Step8_GrainLoop_EmitsAll(_, _, _, _, _)
Step8_GrainLoop_EmitsAll(o, i, n, p, d) ==
    IF i >= n THEN o
    ELSE LET TriggerFrameInBlock ==
                 Clamp(o.BlockSize - o.SamplesUntilNextGrain, 0, o.BlockSize - 1)
             Emitted(t) == [t.o EXCEPT !.OnGrainTriggered = Append(@, TriggerFrameInBlock)]
         IN  Step8_GrainLoop_EmitsAll(
                 Emitted(Step8_TriggerGrain(o, Step8_ResolveGrain(o, p, d), d)),
                 i + 1, n, p, d)

RECURSIVE Step8_GrainLoop(_, _, _, _, _)
Step8_GrainLoop(o, i, n, p, d) ==
    IF i >= n THEN o
    ELSE LET TriggerFrameInBlock ==
                 Clamp(o.BlockSize - o.SamplesUntilNextGrain, 0, o.BlockSize - 1)
             Committed(t) ==
                 IF t.ok
                 THEN [t.o EXCEPT !.OnGrainTriggered = Append(@, TriggerFrameInBlock)]
                 ELSE t.o
         IN  Step8_GrainLoop(Committed(Step8_TriggerGrain(o, Step8_ResolveGrain(o, p, d), d)),
                             i + 1, n, p, d)

\* the refill loop of the render pass: the voice, whether a read gave nothing,
\* and InputFramesNeeded when the loop ends.  A push into a full ring adds
\* nothing; the reader does not loop, so reading on ends with a read of nothing.
RECURSIVE Step8_Refill(_, _, _, _, _)
Step8_Refill(o, v, outcome, needed, calls) ==
    IF ~(v.SourceCircularBuffer < needed) THEN [v |-> v, failed |-> FALSE, reads |-> calls]
    ELSE LET popped == PopAudio(outcome, calls)
             held == Push(v.SourceCircularBuffer, popped, Step8_RingCapacity(o))
         IN  IF popped <= 0 \/ held = v.SourceCircularBuffer
             THEN [v |-> IF v.SourceCircularBuffer <= 0 THEN Deactivate(v) ELSE v,
                   failed |-> TRUE, reads |-> calls + 1]
             ELSE Step8_Refill(o, [v EXCEPT !.SourceCircularBuffer = held], outcome,
                               needed, calls + 1)

\* a render pass that runs the grain down without counting what it played
Step8_RenderVoice_NoCount(o, i, outcome) ==
    LET v == o.GrainVoices[i]
        N == Min(o.BlockSize, v.SamplesRemaining)
        v2 == [v EXCEPT !.SamplesRemaining = @ - N, !.Age = Min(MaxAge, @ + 1)]
    IN  IF ~v.bIsActive THEN o
        ELSE MixIn([o EXCEPT !.GrainVoices[i] =
                                 IF v2.SamplesRemaining <= 0 THEN Deactivate(v2) ELSE v2], i)

\* the body of the render loop for voice i
Step8_RenderVoice(o, i, outcome) ==
    LET v == o.GrainVoices[i]
        N == Min(o.BlockSize, v.SamplesRemaining)
        needed == GetNumInputFramesNeededToProduceOutputFrames(v.Resampler, N)
        Finished(v2) == IF v2.SamplesRemaining <= 0 THEN Deactivate(v2) ELSE v2
        Mixed(o1, ActualFramesResampled) ==
            IF ActualFramesResampled > 0 THEN MixIn(o1, i) ELSE o1
        Consumed(f, ActualFramesResampled) ==
            Mixed([o EXCEPT
                     !.GrainVoices[i] =
                         Finished([f.v EXCEPT
                                     !.SourceCircularBuffer =
                                         @ - ActualFramesResampled * v.Resampler,
                                     !.SamplesPlayed = @ + ActualFramesResampled,
                                     !.SamplesRemaining = @ - ActualFramesResampled,
                                     !.Age = Min(MaxAge, @ + 1)]),
                     !.blk.lowest = Min(@, f.v.SamplesRemaining - ActualFramesResampled),
                     !.blk.readFailed = IF f.failed THEN @ \cup {i} ELSE @,
                     !.blk.refill = @ \cup {[needed |-> needed, reads |-> f.reads,
                                             capacity |-> Step8_RingCapacity(o)]}],
                  ActualFramesResampled)
        \* f: the voice after the refill loop
        Filled(f) ==
            IF ~f.v.bIsActive
            THEN [o EXCEPT !.GrainVoices[i] = f.v,
                           !.blk.readFailed = IF f.failed THEN @ \cup {i} ELSE @,
                           !.blk.refill = @ \cup {[needed |-> needed, reads |-> f.reads,
                                                   capacity |-> Step8_RingCapacity(o)]}]
            ELSE Consumed(f, ProcessAndConsumeAudio(v.Resampler, f.v.SourceCircularBuffer, N))
    IN  IF ~v.bIsActive THEN o
        ELSE IF ~v.Reader \/ v.Resampler = 0
        THEN [o EXCEPT !.GrainVoices[i].bIsActive = FALSE]
        ELSE IF N <= 0 THEN [o EXCEPT !.GrainVoices[i] = Deactivate(v)]
        ELSE Filled(Step8_Refill(o, v, outcome, needed, 0))

RECURSIVE Step8_Render(_, _, _)
Step8_Render(o, i, d) ==
    IF i > Len(o.GrainVoices) THEN o
    ELSE Step8_Render(Step8_RenderVoice(o, i, ReadOutcome(d, i)), i + 1, d)

\* a Play loop that leaves the OnFinished of a failed Play to TryStartPlayback,
\* which emits it only when a session was active
RECURSIVE Step8_PlayLoop_Guarded(_, _, _)
Step8_PlayLoop_Guarded(o, frames, asset) ==
    IF frames = <<>> THEN o
    ELSE LET Tried(t) ==
                 IF t.ok THEN [t.o EXCEPT !.blk.stopPending = FALSE]
                 ELSE [t.o EXCEPT !.bIsPlaying = FALSE, !.blk.playOk = FALSE]
         IN  Step8_PlayLoop_Guarded(Tried(Step8_TryStartPlayback(o, asset, Head(frames))),
                                    Tail(frames), asset)

\* the loop over the Play triggers of the block
RECURSIVE Step8_PlayLoop(_, _, _)
Step8_PlayLoop(o, frames, asset) ==
    IF frames = <<>> THEN o
    ELSE LET Tried(t) ==
                 IF t.ok THEN [t.o EXCEPT !.blk.stopPending = FALSE]
                 ELSE [t.o EXCEPT !.bIsPlaying = FALSE, !.blk.playOk = FALSE,
                                  !.OnFinishedTrigger =
                                      IF @ = <<>> THEN Append(@, Head(frames)) ELSE @]
         IN  Step8_PlayLoop(Tried(Step8_TryStartPlayback(o, asset, Head(frames))),
                         Tail(frames), asset)

\* Execute from the parameter read to the end of the render loop
Step8_ExecutePlaying(o, p, d, bWaveJustChanged) ==
    LET GrainsPerSecX10 == Max(1, p.GrainsPerSecondX10)
        SamplesPerGrainInterval == (o.SampleRate * 1000 * 10) \div GrainsPerSecX10
        \* s: the grains due in the block and the new countdown
        Scheduled(s) ==
            Step8_GrainLoop([o EXCEPT
                               !.AudioOutputLeft = IF bWaveJustChanged THEN Stale(@) ELSE {},
                               !.AudioOutputRight = IF bWaveJustChanged THEN Stale(@) ELSE {},
                               !.SamplesUntilNextGrain = s.sung, !.blk.due = s.n,
                               !.blk.passes = s.n,
                               !.blk.step = IF s.n = 0 THEN 0 ELSE SamplesPerGrainInterval],
                            0, s.n, p, d)
    IN  Step8_Render(Scheduled(Schedule(o.SamplesUntilNextGrain, o.BlockSize,
                                        SamplesPerGrainInterval, 0)),
                     1, d)

Step8_Execute(o, stop, play, asset, p, d) ==
    LET o0 == [o EXCEPT !.OnPlayTrigger = <<>>, !.OnFinishedTrigger = <<>>,
                        !.OnGrainTriggered = <<>>,
                        !.blk = [StartBlk(o, stop, play) EXCEPT
                                     !.stopPending = o.bIsPlaying /\ stop # <<>>]]
        \* o4: the engine after the asset check
        Checked(o4, changed) ==
            IF o4.CurrentNumChannels <= 0 \/ ~o4.ConvertDeinterleave
               \/ o4.CachedSoundWaveDuration <= 0
            THEN StopAtFrame0([o4 EXCEPT !.blk.sanity = TRUE])
            ELSE Step8_ExecutePlaying(o4, p, d, changed)
        \* init: the result of InitializeWaveData on a changed asset
        Rebound(init) ==
            IF ~init.ok THEN StopAtFrame0([init.o EXCEPT !.blk.rebind = "fail"])
            ELSE Checked([init.o EXCEPT !.blk.rebind = "ok"], TRUE)
        \* o3: the engine after the trigger phase
        Triggered(o3) ==
            IF ~o3.bIsPlaying
            THEN IF ProxyIsValid(o3.CurrentWaveProxy) \/ o3.CurrentNumChannels > 0
                    \/ o3.ConvertDeinterleave
                 THEN ZeroOutputs(ClearWaveData(ResetVoices(o3)))
                 ELSE ZeroOutputs(o3)
            ELSE IF ~ProxyIsValid(o3.CurrentWaveProxy)
            THEN StopAtFrame0([o3 EXCEPT !.blk.sanity = TRUE])
            ELSE IF ProxyIsValid(asset) /\ o3.CurrentWaveProxy # asset
            THEN Rebound(Step8_InitializeWaveData(o3, asset))
            ELSE IF ~ProxyIsValid(asset) /\ ProxyIsValid(o3.CurrentWaveProxy)
            THEN StopAtFrame0([o3 EXCEPT !.blk.rebind = "invalid"])
            ELSE Checked(o3, FALSE)
        Observed(o2) == Triggered([o2 EXCEPT !.blk.trigPlaying = o2.bIsPlaying,
                                             !.blk.trigFinished = Len(o2.OnFinishedTrigger)])
        \* o1: the engine after the Play triggers
        Played(o1) ==
            Observed(IF o1.blk.stopPending /\ o1.bIsPlaying
                     THEN [ResetVoices(o1) EXCEPT !.bIsPlaying = FALSE,
                                                  !.OnFinishedTrigger = Append(@, Head(stop))]
                     ELSE o1)
    IN  Played(Step8_PlayLoop(o0, play, asset))

(***************************************************************************)
(* FGranularWavePlayerSmoothOperator                                       *)
(***************************************************************************)
\* PlaybackSpeed, PlayPosition and Smoothing are the percent inputs.
Smooth_Params1 ==
    [GrainDurationMs |-> 2, DurationRandMs |-> 0, GrainsPerSecondX10 |-> 5000,
     PlaybackSpeed |-> 100, PlayPosition |-> 0, GrainDensity |-> 2, TimeJitterMs |-> 0,
     StartPointRandMs |-> 0, PitchShift |-> 0, Smoothing |-> 0]
Smooth_Params2 ==
    [GrainDurationMs |-> 8, DurationRandMs |-> 4, GrainsPerSecondX10 |-> 2500,
     PlaybackSpeed |-> 100, PlayPosition |-> 0, GrainDensity |-> 1, TimeJitterMs |-> 2,
     StartPointRandMs |-> 4, PitchShift |-> 12, Smoothing |-> 100]
Smooth_Params3 ==
    [GrainDurationMs |-> 8, DurationRandMs |-> 0, GrainsPerSecondX10 |-> 2500,
     PlaybackSpeed |-> 0, PlayPosition |-> 100, GrainDensity |-> 1, TimeJitterMs |-> 0,
     StartPointRandMs |-> 2, PitchShift |-> 0, Smoothing |-> 0]

\* the parameter values and the draws of one block
SmoothScenes ==
    {[p |-> Smooth_Params1, d |-> d] : d \in {dLow, dHigh, dNoReader, dPart, dNone}}
        \cup {[p |-> Smooth_Params2, d |-> d] : d \in {dLow, dHigh, dEarly}}
        \cup {[p |-> Smooth_Params3, d |-> d] : d \in {dLow, dHigh}}

Smooth_InitializeWaveData(o, proxy) ==
    LET o1 == [o EXCEPT !.CurrentWaveProxy = proxy]
        dur == NumFramesInWave(proxy) \div Max(1, WaveSampleRate(proxy))
        ch == NumChannelsOf(proxy)
    IN  IF ~TempReaderIsValid(proxy) THEN [o |-> o1, ok |-> FALSE]
        ELSE IF ch <= 0 \/ dur <= 0
        THEN [o |-> [o1 EXCEPT !.CurrentNumChannels = 0, !.CachedSoundWaveDuration = 0,
                               !.ConvertDeinterleave = FALSE],
              ok |-> FALSE]
        ELSE IF ~DeinterleaveCreate(ch)
        THEN [o |-> [o1 EXCEPT !.CurrentNumChannels = 0, !.CachedSoundWaveDuration = 0,
                               !.ConvertDeinterleave = FALSE],
              ok |-> FALSE]
        ELSE [o |-> [o1 EXCEPT !.CachedSoundWaveDuration = dur, !.CurrentNumChannels = ch,
                               !.ConvertDeinterleave = TRUE],
              ok |-> TRUE]

Smooth_TryStartPlayback(o, asset, frame) ==
    LET bWasPlayingBeforeAttempt == o.bIsPlaying
        o0 == [o EXCEPT !.bIsPlaying = FALSE,
                        !.OnFinishedTrigger =
                            IF bWasPlayingBeforeAttempt THEN Append(@, frame) ELSE @]
        fin(x) == [x EXCEPT !.OnFinishedTrigger =
                       IF bWasPlayingBeforeAttempt THEN Append(@, frame) ELSE @]
        \* init: the result of InitializeWaveData
        Bound(init) ==
            IF ~init.ok THEN [o |-> ResetVoices(fin(init.o)), ok |-> FALSE]
            ELSE [o |-> [ResetVoices(init.o) EXCEPT !.bIsPlaying = TRUE,
                                                    !.SamplesUntilNextGrain = 0,
                                                    !.OnPlayTrigger = Append(@, frame)],
                  ok |-> TRUE]
    IN  IF ~IsSoundWaveValid(asset) THEN [o |-> ClearWaveData(ResetVoices(o0)), ok |-> FALSE]
        ELSE IF ~ProxyIsValid(asset) THEN [o |-> ClearWaveData(ResetVoices(o0)), ok |-> FALSE]
        ELSE Bound(Smooth_InitializeWaveData([o EXCEPT !.bIsPlaying = FALSE], asset))

\* a loop over the Play triggers in which a Play that succeeds leaves a
\* pending Stop pending
RECURSIVE Smooth_PlayLoop_KeepsStop(_, _, _)
Smooth_PlayLoop_KeepsStop(o, frames, asset) ==
    IF frames = <<>> THEN o
    ELSE LET Tried(t) ==
                 IF t.ok THEN t.o
                 ELSE [t.o EXCEPT !.bIsPlaying = FALSE, !.blk.playOk = FALSE,
                                  !.OnFinishedTrigger =
                                      IF @ = <<>> THEN Append(@, Head(frames)) ELSE @]
         IN  Smooth_PlayLoop_KeepsStop(Tried(Smooth_TryStartPlayback(o, asset, Head(frames))),
                                       Tail(frames), asset)

\* the loop over the Play triggers of the block
RECURSIVE Smooth_PlayLoop(_, _, _)
Smooth_PlayLoop(o, frames, asset) ==
    IF frames = <<>> THEN o
    ELSE LET Tried(t) ==
                 IF t.ok THEN [t.o EXCEPT !.blk.stopPending = FALSE]
                 ELSE [t.o EXCEPT !.bIsPlaying = FALSE, !.blk.playOk = FALSE,
                                  !.OnFinishedTrigger =
                                      IF @ = <<>> THEN Append(@, Head(frames)) ELSE @]
         IN  Smooth_PlayLoop(Tried(Smooth_TryStartPlayback(o, asset, Head(frames))),
                         Tail(frames), asset)

\* the frames one PopAudio fills: InterleavedReadBuffer holds ConformedDecodeSize frames
Smooth_ConformedDecodeSize(o, InGrainDurationSamples) ==
    CeilDiv(Max(InGrainDurationSamples, o.BlockSize * 2), DecodeSizeQuantization)
        * DecodeSizeQuantization

Smooth_RingCapacity(o, InGrainDurationSamples) ==
    Smooth_ConformedDecodeSize(o, InGrainDurationSamples) + o.BlockSize * 4

\* a position update whose freeze check leaves the countdown as it is
Smooth_Position_KeepsCountdown(o, p, bFreezed, bFreezeStateChanged) ==
    LET BaseGrainDurationSeconds == Max(MinGrainDurationSeconds, p.GrainDurationMs)
        MaxDurationRandSeconds == Max(0, p.DurationRandMs)
        D == o.CachedSoundWaveDuration
        sung0 == o.SamplesUntilNextGrain
        MaxValidPosition == Max(0, D - (BaseGrainDurationSeconds + MaxDurationRandSeconds))
        \* Min(PlayPosition, MaxValidPosition / D) * D
        NewPositionInSeconds == Min((Clamp(p.PlayPosition, 0, 100) * D) \div 100, MaxValidPosition)
        diff == NewPositionInSeconds - o.CurrentPlaybackPositionSeconds
        moved == (IF diff < 0 THEN -diff ELSE diff) > 10
        PlaybackSpeed == Clamp(p.PlaybackSpeed, 0, 800)
        advanced == IF bFreezeStateChanged THEN o.CurrentPlaybackPositionSeconds
                    ELSE o.CurrentPlaybackPositionSeconds
                         + (o.BlockSize * PlaybackSpeed) \div (o.SampleRate * 100)
        wrapped == IF advanced >= D /\ D > 0 THEN Fmod(advanced, D) ELSE advanced
    IN  IF bFreezed
        THEN [o EXCEPT !.SamplesUntilNextGrain = IF moved THEN 0 ELSE sung0,
                       !.CurrentPlaybackPositionSeconds = NewPositionInSeconds]
        ELSE [o EXCEPT !.SamplesUntilNextGrain = sung0,
                       !.CurrentPlaybackPositionSeconds = wrapped]

\* the position update of Execute: SamplesUntilNextGrain and the position
Smooth_Position(o, p, bFreezed, bFreezeStateChanged) ==
    LET BaseGrainDurationSeconds == Max(MinGrainDurationSeconds, p.GrainDurationMs)
        MaxDurationRandSeconds == Max(0, p.DurationRandMs)
        D == o.CachedSoundWaveDuration
        sung0 == IF bFreezeStateChanged /\ o.bIsPlaying THEN 0 ELSE o.SamplesUntilNextGrain
        MaxValidPosition == Max(0, D - (BaseGrainDurationSeconds + MaxDurationRandSeconds))
        \* Min(PlayPosition, MaxValidPosition / D) * D
        NewPositionInSeconds == Min((Clamp(p.PlayPosition, 0, 100) * D) \div 100, MaxValidPosition)
        diff == NewPositionInSeconds - o.CurrentPlaybackPositionSeconds
        moved == (IF diff < 0 THEN -diff ELSE diff) > 10
        PlaybackSpeed == Clamp(p.PlaybackSpeed, 0, 800)
        advanced == IF bFreezeStateChanged THEN o.CurrentPlaybackPositionSeconds
                    ELSE o.CurrentPlaybackPositionSeconds
                         + (o.BlockSize * PlaybackSpeed) \div (o.SampleRate * 100)
        wrapped == IF advanced >= D /\ D > 0 THEN Fmod(advanced, D) ELSE advanced
    IN  IF bFreezed
        THEN [o EXCEPT !.SamplesUntilNextGrain = IF moved THEN 0 ELSE sung0,
                       !.CurrentPlaybackPositionSeconds = NewPositionInSeconds]
        ELSE [o EXCEPT !.SamplesUntilNextGrain = sung0,
                       !.CurrentPlaybackPositionSeconds = wrapped]

\* the per-grain parameter resolution of Execute
Smooth_ResolveGrain(o, p, d, bFreezed) ==
    LET BaseGrainDurationSeconds == Max(MinGrainDurationSeconds, p.GrainDurationMs)
        MaxDurationRandSeconds == Max(0, p.DurationRandMs)
        PositionInSeconds == o.CurrentPlaybackPositionSeconds
        BaseStartPointSeconds == Max(0, PositionInSeconds)
        MaxStartPointRandSeconds == Max(0, p.StartPointRandMs)
        D == o.CachedSoundWaveDuration
        EffectiveEndPointSeconds == D
        ClampedBaseStartPointSeconds ==
            Min(BaseStartPointSeconds, EffectiveEndPointSeconds - MinGrainDurationSeconds)
        PotentialMaxStartTime == ClampedBaseStartPointSeconds + MaxStartPointRandSeconds
        ValidRegionEndTime == Max(0, EffectiveEndPointSeconds - MinGrainDurationSeconds)
        ClampedMaxStartTime0 ==
            Clamp(PotentialMaxStartTime, ClampedBaseStartPointSeconds, ValidRegionEndTime)
        ClampedMaxStartTime ==
            IF ClampedBaseStartPointSeconds > ClampedMaxStartTime0
            THEN ClampedBaseStartPointSeconds ELSE ClampedMaxStartTime0
        \* twice Max(0.0005 s, MaxStartPointRandSeconds * 0.5), in ms
        AppliedJitterX2 == Max(1, MaxStartPointRandSeconds)
        FrozenStart ==
            Clamp(FRandRange(d, (2 * PositionInSeconds - AppliedJitterX2) \div 2,
                                (2 * PositionInSeconds + AppliedJitterX2) \div 2),
                  0, D - MinGrainDurationSeconds)
        GrainDurationSeconds ==
            Max(MinGrainDurationSeconds,
                BaseGrainDurationSeconds + FRandRange(d, 0, MaxDurationRandSeconds))
        TargetPitchShift ==
            Clamp(Clamp(p.PitchShift, -MaxAbsPitchShiftSemitones, MaxAbsPitchShiftSemitones),
                  -MaxAbsPitchShiftSemitones, MaxAbsPitchShiftSemitones)
    IN  [StartTime |-> IF bFreezed THEN FrozenStart
                       ELSE FRandRange(d, ClampedBaseStartPointSeconds, ClampedMaxStartTime),
         Duration |-> GrainDurationSeconds,
         DurationSamples |-> GrainDurationSeconds * o.SampleRate,
         FrameRatio |-> Pow2Semitones(TargetPitchShift)]

\* a TriggerGrain without the clamp of the grain to the end of the file
Smooth_TriggerGrain_NoClamp(o, g, d) ==
    LET idx == FirstInactive(o.GrainVoices)
        nv == [o.GrainVoices[idx] EXCEPT !.Reader = TRUE, !.NumChannels = o.CurrentNumChannels,
                                         !.Resampler = g.FrameRatio,
                                         !.SourceCircularBuffer = 0,
                                         !.bIsActive = TRUE,
                                         !.SamplesRemaining = g.DurationSamples,
                                         !.SamplesPlayed = 0,
                                         !.TotalGrainSamples = g.DurationSamples,
                                         !.Age = 0]
    IN  IF ~ProxyIsValid(o.CurrentWaveProxy) \/ g.DurationSamples <= 0
           \/ o.CurrentNumChannels <= 0 \/ idx = 0
        THEN [o |-> o, ok |-> FALSE]
        ELSE IF ~d.readerOk
        THEN [o |-> [o EXCEPT !.GrainVoices[idx].Reader = FALSE], ok |-> FALSE]
        ELSE [o |-> [o EXCEPT !.GrainVoices[idx] = nv,
                              !.blk.grain = [StartTime |-> Max(0, g.StartTime),
                                             Duration |-> g.Duration,
                                             Samples |-> g.DurationSamples]],
              ok |-> TRUE]

Smooth_TriggerGrain(o, g, d) ==
    LET idx == FirstInactive(o.GrainVoices)
        start0 == Max(0, g.StartTime)
        DurationInSeconds == g.DurationSamples \div o.SampleRate
        over == start0 + DurationInSeconds > o.CachedSoundWaveDuration
        InStartTimeSeconds ==
            IF over THEN Max(0, o.CachedSoundWaveDuration - DurationInSeconds) ELSE start0
        nv == [o.GrainVoices[idx] EXCEPT !.Reader = TRUE, !.NumChannels = o.CurrentNumChannels,
                                         !.Resampler = g.FrameRatio,
                                         !.SourceCircularBuffer = 0,
                                         !.bIsActive = TRUE,
                                         !.SamplesRemaining = g.DurationSamples,
                                         !.SamplesPlayed = 0,
                                         !.TotalGrainSamples = g.DurationSamples,
                                         !.Age = 0]
    IN  IF ~ProxyIsValid(o.CurrentWaveProxy) \/ g.DurationSamples <= 0
           \/ o.CurrentNumChannels <= 0
        THEN [o |-> o, ok |-> FALSE]
        ELSE IF idx = 0 THEN [o |-> o, ok |-> FALSE]
        ELSE IF over /\ (InStartTimeSeconds <= 0 \/ DurationInSeconds < MinGrainDurationSeconds)
        THEN [o |-> [o EXCEPT !.blk.failed = @ \cup {idx}], ok |-> FALSE]
        ELSE IF ~d.readerOk
        THEN [o |-> [o EXCEPT !.GrainVoices[idx].Reader = FALSE,
                              !.blk.failed = @ \cup {idx}],
              ok |-> FALSE]
        ELSE [o |-> [o EXCEPT !.GrainVoices[idx] = nv,
                              !.blk.grain = [StartTime |-> InStartTimeSeconds,
                                             Duration |-> g.Duration,
                                             Samples |-> g.DurationSamples],
                              !.blk.committed = @ + 1],
              ok |-> TRUE]

RECURSIVE Smooth_GrainLoop(_, _, _, _, _, _)
Smooth_GrainLoop(o, i, n, p, d, bFreezed) ==
    IF i >= n THEN o
    ELSE LET TriggerFrameInBlock ==
                 Clamp(o.BlockSize - o.SamplesUntilNextGrain, 0, o.BlockSize - 1)
             Committed(t) ==
                 IF t.ok
                 THEN [t.o EXCEPT !.OnGrainTriggered = Append(@, TriggerFrameInBlock)]
                 ELSE t.o
         IN  Smooth_GrainLoop(
                 Committed(Smooth_TriggerGrain(o, Smooth_ResolveGrain(o, p, d, bFreezed), d)),
                 i + 1, n, p, d, bFreezed)

\* a scheduler loop whose gate does not count the active voices
RECURSIVE Smooth_Schedule_NoGate(_, _, _, _, _, _, _, _, _)
Smooth_Schedule_NoGate(sung, elapsed, interval, jitter, n, count, density, d, passes) ==
    IF sung <= elapsed
    THEN LET pass == d.u = 0 \/ density >= MaxGrainVoices
             drawn == IF passes < MaxJitterRun \/ jitter >= 0 THEN jitter ELSE -jitter
         IN  Smooth_Schedule_NoGate(sung + drawn + interval, elapsed, interval, jitter,
                                    IF pass THEN n + 1 ELSE n,
                                    IF pass THEN count + 1 ELSE count, density, d,
                                    passes + 1)
    ELSE [n |-> n, sung |-> sung - elapsed, passes |-> passes]

\* the scheduler loop with its jitter and density gate
RECURSIVE Smooth_Schedule(_, _, _, _, _, _, _, _, _)
Smooth_Schedule(sung, elapsed, interval, jitter, n, count, density, d, passes) ==
    IF sung <= elapsed
    THEN LET pass == count < density /\ (d.u = 0 \/ density >= MaxGrainVoices)
             \* FMath::RandRange(-TimeJitterSamples, TimeJitterSamples) of this pass
             drawn == IF passes < MaxJitterRun \/ jitter >= 0 THEN jitter ELSE -jitter
         IN  Smooth_Schedule(sung + drawn + interval, elapsed, interval, jitter,
                             IF pass THEN n + 1 ELSE n, IF pass THEN count + 1 ELSE count,
                             density, d, passes + 1)
    ELSE [n |-> n, sung |-> sung - elapsed, passes |-> passes]

\* the read loop of ProcessAudioForGrain
RECURSIVE Smooth_Refill(_, _, _, _, _, _)
Smooth_Refill(o, v, outcome, needed, Block, BlocksToRead) ==
    IF Block >= BlocksToRead THEN [v |-> v, failed |-> FALSE]
    ELSE LET want == Smooth_ConformedDecodeSize(o, v.TotalGrainSamples)
             popped == IF outcome = "all" THEN want ELSE PopAudio(outcome, Block)
             held == Push(v.SourceCircularBuffer, popped,
                          Smooth_RingCapacity(o, v.TotalGrainSamples))
         IN  IF popped <= 0 THEN [v |-> v, failed |-> TRUE]
             ELSE IF held >= needed
             THEN [v |-> [v EXCEPT !.SourceCircularBuffer = held], failed |-> FALSE]
             ELSE Smooth_Refill(o, [v EXCEPT !.SourceCircularBuffer = held], outcome,
                                needed, Block + 1, BlocksToRead)

\* returns the voice, the frames resampled and whether a read gave nothing
Smooth_ProcessAudioForGrain(o, v, outcome, OutputFramesToProcess) ==
    LET InputFramesNeeded ==
            GetNumInputFramesNeededToProduceOutputFrames(v.Resampler, OutputFramesToProcess)
        BlocksToRead ==
            CeilDiv(InputFramesNeeded - v.SourceCircularBuffer, DeinterleaveBlockSizeFrames)
        Consumed(f, n) ==
            [v |-> [f.v EXCEPT !.SourceCircularBuffer = @ - n * v.Resampler],
             n |-> n, failed |-> f.failed]
        \* f: the voice after the read loop
        Filled(f) ==
            Consumed(f, ProcessAndConsumeAudio(v.Resampler, f.v.SourceCircularBuffer,
                                               OutputFramesToProcess))
    IN  IF ~v.Reader \/ v.Resampler = 0 \/ ~v.bIsActive \/ OutputFramesToProcess <= 0
        THEN [v |-> v, n |-> 0, failed |-> FALSE]
        ELSE Filled(IF v.SourceCircularBuffer < InputFramesNeeded
                    THEN Smooth_Refill(o, v, outcome, InputFramesNeeded, 0, BlocksToRead)
                    ELSE [v |-> v, failed |-> FALSE])

\* the body of the render loop for voice i
Smooth_RenderVoice(o, i, outcome) ==
    LET v == o.GrainVoices[i]
        OutputFramesToProcess == Min(o.BlockSize, v.SamplesRemaining)
        Finished(v2) == IF v2.SamplesRemaining <= 0 THEN Deactivate(v2) ELSE v2
        Mixed(o1, n) == IF n > 0 THEN MixIn(o1, i) ELSE o1
        \* r: the result of ProcessAudioForGrain
        Processed(r) ==
            Mixed([o EXCEPT
                     !.GrainVoices[i] =
                         Finished([r.v EXCEPT !.SamplesPlayed = @ + r.n,
                                              !.SamplesRemaining = @ - r.n,
                                              !.Age = Min(MaxAge, @ + 1)]),
                     !.blk.lowest = Min(@, r.v.SamplesRemaining - r.n),
                     !.blk.readFailed = IF r.failed THEN @ \cup {i} ELSE @],
                  r.n)
    IN  IF ~v.bIsActive THEN o
        ELSE IF ~v.Reader \/ v.Resampler = 0
        THEN [o EXCEPT !.GrainVoices[i].bIsActive = FALSE]
        ELSE IF OutputFramesToProcess <= 0 THEN [o EXCEPT !.GrainVoices[i] = Deactivate(v)]
        ELSE Processed(Smooth_ProcessAudioForGrain(o, v, outcome, OutputFramesToProcess))

RECURSIVE Smooth_Render(_, _, _)
Smooth_Render(o, i, d) ==
    IF i > Len(o.GrainVoices) THEN o
    ELSE Smooth_Render(Smooth_RenderVoice(o, i, ReadOutcome(d, i)), i + 1, d)

\* the final smoothing pass: a one-pole low pass over both outputs
Smooth_PostFilter(o, p) ==
    LET mem == IF o.PrevGrainValue THEN {-1} ELSE {}
    IN  IF Clamp(p.Smoothing, 0, 100) > 50
        THEN [o EXCEPT !.AudioOutputLeft = @ \cup mem, !.AudioOutputRight = @ \cup mem,
                       !.PrevGrainValue = (o.AudioOutputLeft \cup mem) # {}]
        ELSE o

\* Execute from the parameter read to its end
Smooth_ExecutePlaying(o, p, d, bWaveJustChanged) ==
    LET GrainsPerSecX10 == Max(1, p.GrainsPerSecondX10)
        SamplesPerGrainInterval == (o.SampleRate * 1000 * 10) \div GrainsPerSecX10
        bFreezed == Clamp(p.PlaybackSpeed, 0, 800) = 0
        DesiredGrainDensity == Clamp(p.GrainDensity, 1, MaxGrainVoices)
        TimeJitterSamples == Max(0, p.TimeJitterMs) * o.SampleRate
        bFreezeStateChanged == bFreezed # o.bPreviousFreezeState
        \* s: the grains due in the block and the new countdown
        Scheduled(o1, s) ==
            Smooth_GrainLoop([o1 EXCEPT
                                !.AudioOutputLeft = IF bWaveJustChanged THEN Stale(@) ELSE {},
                                !.AudioOutputRight = IF bWaveJustChanged THEN Stale(@) ELSE {},
                                !.SamplesUntilNextGrain = s.sung, !.blk.due = s.n,
                                !.blk.passes = s.passes,
                                !.blk.step = IF s.passes = 0 THEN 0
                                             ELSE SamplesPerGrainInterval
                                                      + d.jit * TimeJitterSamples],
                             0, s.n, p, d, bFreezed)
        \* o1: the engine after the position update
        Positioned(o1) ==
            Scheduled(o1,
                      IF bFreezeStateChanged
                      THEN [n |-> 2, sung |-> o1.SamplesUntilNextGrain, passes |-> 0]
                      ELSE Smooth_Schedule(o1.SamplesUntilNextGrain, o.BlockSize,
                                           SamplesPerGrainInterval, d.jit * TimeJitterSamples,
                                           0, Cardinality(ActiveVoices(o.GrainVoices)),
                                           DesiredGrainDensity, d, 0))
    IN  Smooth_PostFilter(
            Smooth_Render(
                Positioned(Smooth_Position([o EXCEPT !.bPreviousFreezeState = bFreezed,
                                                     !.blk.toggled = bFreezeStateChanged,
                                                     !.blk.speed = Clamp(p.PlaybackSpeed, 0, 800)],
                                           p, bFreezed, bFreezeStateChanged)),
                1, d),
            p)

Smooth_Execute(o, stop, play, asset, p, d) ==
    LET o0 == [o EXCEPT !.OnPlayTrigger = <<>>, !.OnFinishedTrigger = <<>>,
                        !.OnGrainTriggered = <<>>,
                        !.blk = [StartBlk(o, stop, play) EXCEPT
                                     !.stopPending = o.bIsPlaying /\ stop # <<>>]]
        \* o4: the engine after the asset check
        Checked(o4, changed) ==
            IF o4.CurrentNumChannels <= 0 \/ ~o4.ConvertDeinterleave
               \/ o4.CachedSoundWaveDuration <= 0
            THEN StopAtFrame0([o4 EXCEPT !.blk.sanity = TRUE])
            ELSE Smooth_ExecutePlaying(o4, p, d, changed)
        \* init: the result of InitializeWaveData on a changed asset
        Rebound(init) ==
            IF ~init.ok THEN StopAtFrame0([init.o EXCEPT !.blk.rebind = "fail"])
            ELSE Checked([init.o EXCEPT !.blk.rebind = "ok"], TRUE)
        \* o3: the engine after the trigger phase
        Triggered(o3) ==
            IF ~o3.bIsPlaying
            THEN IF ProxyIsValid(o3.CurrentWaveProxy) \/ o3.CurrentNumChannels > 0
                    \/ o3.ConvertDeinterleave
                 THEN ZeroOutputs(ClearWaveData(ResetVoices(o3)))
                 ELSE ZeroOutputs(o3)
            ELSE IF ~ProxyIsValid(o3.CurrentWaveProxy)
            THEN StopAtFrame0([o3 EXCEPT !.blk.sanity = TRUE])
            ELSE IF ProxyIsValid(asset) /\ o3.CurrentWaveProxy # asset
            THEN Rebound(Smooth_InitializeWaveData(o3, asset))
            ELSE IF ~ProxyIsValid(asset) /\ ProxyIsValid(o3.CurrentWaveProxy)
            THEN StopAtFrame0([o3 EXCEPT !.blk.rebind = "invalid"])
            ELSE Checked(o3, FALSE)
        Observed(o2) == Triggered([o2 EXCEPT !.blk.trigPlaying = o2.bIsPlaying,
                                             !.blk.trigFinished = Len(o2.OnFinishedTrigger)])
        \* o1: the engine after the Play triggers
        Played(o1) ==
            Observed(IF o1.blk.stopPending /\ o1.bIsPlaying
                     THEN [ResetVoices(o1) EXCEPT !.bIsPlaying = FALSE,
                                                  !.OnFinishedTrigger = Append(@, Head(stop))]
                     ELSE o1)
    IN  Played(Smooth_PlayLoop(o0, play, asset))

(***************************************************************************)
(* Reset                                                                   *)
(***************************************************************************)
NoGrain == [StartTime |-> 0, Duration |-> 0, IsReversed |-> FALSE, Pitch |-> 0]

ResetBlk(o) ==
    [NoBlk EXCEPT !.kind = "Reset", !.wasPlaying = o.bIsPlaying]

Step8_Reset(o) ==
    [ClearWaveData(ZeroOutputs(ResetVoices(o))) EXCEPT
        !.SamplesUntilNextGrain = 0, !.OnPlayTrigger = <<>>, !.OnFinishedTrigger = <<>>,
        !.OnGrainTriggered = <<>>, !.bIsPlaying = FALSE, !.blk = ResetBlk(o)]

\* a Reset that leaves the trigger outputs as the last block left them
GS_Reset_KeepsTriggers(o) ==
    [ClearWaveData(ZeroOutputs(ResetVoices(o))) EXCEPT
        !.SamplesUntilNextGrain = 0, !.OutputGrain = NoGrain, !.bIsPlaying = FALSE,
        !.blk = ResetBlk(o)]

GS_Reset(o) ==
    [ClearWaveData(ZeroOutputs(ResetVoices(o))) EXCEPT
        !.SamplesUntilNextGrain = 0, !.OnPlayTrigger = <<>>, !.OnFinishedTrigger = <<>>,
        !.OnGrainTriggered = <<>>, !.OutputGrain = NoGrain, !.bIsPlaying = FALSE,
        !.blk = ResetBlk(o)]

Smooth_Reset(o) ==
    [ClearWaveData(ZeroOutputs(ResetVoices(o))) EXCEPT
        !.SamplesUntilNextGrain = 0, !.OnPlayTrigger = <<>>, !.OnFinishedTrigger = <<>>,
        !.OnGrainTriggered = <<>>, !.bIsPlaying = FALSE,
        !.CurrentPlaybackPositionSeconds = 0, !.PrevGrainValue = FALSE,
        !.blk = ResetBlk(o)]

(***************************************************************************)
(* The state machine.                                                      *)
(***************************************************************************)
\* What the scheduler is observed to have done over the blocks since Play
\* (no part of the program's state).
\*   blocks   Execute calls since the session began, the Play block included
\*   grains   grains scheduled in them (found due, or warm-started)
\*   since    blocks since the last block in which a grain was scheduled
\*   gap      distance in blocks between the last two blocks in which a grain
\*            was scheduled; 0 until there are two
NoSched == [blocks |-> 0, grains |-> 0, since |-> 0, gap |-> 0]

ObserveSched(s, n) ==
    [blocks |-> s.blocks + 1, grains |-> s.grains + n,
     since |-> IF n > 0 THEN 0 ELSE s.since + 1,
     gap |-> IF n > 0 /\ s.grains > 0 THEN s.since + 1 ELSE s.gap]

\* no grain is being enveloped
NoEnv == [op |-> "None", frame |-> 0, raw |-> 0, gain |-> 0]

\* the state after construction
Init ==
    /\ op \in Ops
    /\ SampleRate \in SampleRates
    /\ BlockSize \in BlockSizes
    /\ bIsPlaying = FALSE
    /\ SamplesUntilNextGrain = 0
    /\ GrainVoices = [i \in Voices |-> FGrainVoice]
    /\ CurrentWaveProxy = "None"
    /\ CachedSoundWaveDuration = 0
    /\ CurrentNumChannels = 0
    /\ ConvertDeinterleave = FALSE
    /\ OnPlayTrigger = <<>>
    /\ OnFinishedTrigger = <<>>
    /\ OnGrainTriggered = <<>>
    /\ AudioOutputLeft = {}
    /\ AudioOutputRight = {}
    /\ OutputGrain = NoGrain
    /\ bPreviousFreezeState = FALSE
    /\ CurrentPlaybackPositionSeconds = 0
    /\ PrevGrainValue = FALSE
    /\ blk = NoBlk
    /\ sched = NoSched
    /\ env = NoEnv

\* The triggers and the asset the host presents in one block.  A block that
\* begins Stopped and has no Play trigger returns before it reads the asset.
HostInputs ==
    {[stop |-> <<>>, play |-> <<>>, asset |-> a] :
          a \in IF bIsPlaying THEN Assets ELSE {"None"}}
        \cup {[stop |-> <<1>>, play |-> <<>>, asset |-> "None"]}
        \cup {[stop |-> <<>>, play |-> <<2>>, asset |-> a] : a \in Assets}
        \cup {[stop |-> <<1>>, play |-> <<2>>, asset |-> a] : a \in {"W1", "None"}}
        \cup {[stop |-> <<>>, play |-> <<0, 3>>, asset |-> a] : a \in {"W1", "NoReader"}}

\* A block whose asset cannot be bound returns before it reads a parameter.
Binds(asset) == TempReaderIsValid(asset)
Pick(S) == CHOOSE x \in S : TRUE

ExecuteGS ==
    /\ op = "GS"
    /\ \E h \in HostInputs :
         \E sc \in IF Binds(h.asset) THEN GSScenes ELSE {Pick(GSScenes)} :
            Install(GS_Execute(Self, h.stop, h.play, h.asset, sc.p, sc.d))
    /\ UNCHANGED <<sched, env>>

ExecuteStep8 ==
    /\ op = "Step8"
    /\ \E h \in HostInputs :
         \E sc \in IF Binds(h.asset) THEN Step8Scenes ELSE {Pick(Step8Scenes)} :
            Install(Step8_Execute(Self, h.stop, h.play, h.asset, sc.p, sc.d))
    /\ UNCHANGED <<sched, env>>

ExecuteSmooth ==
    /\ op = "Smooth"
    /\ \E h \in HostInputs :
         \E sc \in IF Binds(h.asset) THEN SmoothScenes ELSE {Pick(SmoothScenes)} :
            Install(Smooth_Execute(Self, h.stop, h.play, h.asset, sc.p, sc.d))
    /\ UNCHANGED <<sched, env>>

ResetGS == op = "GS" /\ Install(GS_Reset(Self)) /\ UNCHANGED <<sched, env>>

ResetStep8 == op = "Step8" /\ Install(Step8_Reset(Self)) /\ UNCHANGED <<sched, env>>

ResetSmooth == op = "Smooth" /\ Install(Smooth_Reset(Self)) /\ UNCHANGED <<sched, env>>

Next ==
    \/ ExecuteGS
    \/ ExecuteStep8
    \/ ExecuteSmooth
    \/ ResetGS
    \/ ResetStep8
    \/ ResetSmooth

Spec == Init /\ [][Next]_vars

(***************************************************************************)
(* A steady session of FGranularSynthOperator at 48 kHz with blocks of 512 *)
(* frames: grain duration 100 ms, Active Voices 1, time jitter 0.  The     *)
(* host sends one Play trigger and then renders block after block.         *)
(* Sample counts of this session are in units of 16 samples (the rate is 3 *)
(* units per ms, a block 32 units, the grain interval 300 units), which    *)
(* keeps every ratio of the scheduler and the render loops short.          *)
(***************************************************************************)
SamplesPerUnit16 == 16

GS_Params16(warm) ==
    [GrainDurationMs |-> 100, DurationRandMs |-> 0, ActiveVoicesX100 |-> 100,
     TimeJitter |-> 0, StartPoint |-> 0, StartPointRandMs |-> 0, ReverseChance |-> 0,
     PitchShift |-> 0, WarmStart |-> warm]

Draws16 == {dLow, dHigh, dNone}

\* the operator constructed with these operator settings
Init16 ==
    /\ op = "GS"
    /\ SampleRate = 48 \div SamplesPerUnit16
    /\ BlockSize = 512 \div SamplesPerUnit16
    /\ bIsPlaying = FALSE
    /\ SamplesUntilNextGrain = 0
    /\ GrainVoices = [i \in Voices |-> FGrainVoice]
    /\ CurrentWaveProxy = "None"
    /\ CachedSoundWaveDuration = 0
    /\ CurrentNumChannels = 0
    /\ ConvertDeinterleave = FALSE
    /\ OnPlayTrigger = <<>>
    /\ OnFinishedTrigger = <<>>
    /\ OnGrainTriggered = <<>>
    /\ AudioOutputLeft = {}
    /\ AudioOutputRight = {}
    /\ OutputGrain = NoGrain
    /\ bPreviousFreezeState = FALSE
    /\ CurrentPlaybackPositionSeconds = 0
    /\ PrevGrainValue = FALSE
    /\ blk = NoBlk
    /\ sched = NoSched
    /\ env = NoEnv

\* o: the engine after the block; warm: grains the warm start scheduled
Installed16(o, warm) ==
    /\ Install(o)
    /\ sched' = ObserveSched(sched, o.blk.due + warm)
    /\ UNCHANGED env

\* the block with the Play trigger
Play16 ==
    /\ ~bIsPlaying /\ sched.blocks = 0
    /\ \E w \in BOOLEAN : \E d \in Draws16 :
          Installed16(GS_Execute(Self, <<>>, <<0>>, "W1", GS_Params16(w), d),
                      IF w THEN 1 ELSE 0)

\* a block without triggers
Block16 ==
    /\ bIsPlaying /\ sched.blocks < MaxBlocks16
    /\ \E d \in Draws16 :
          Installed16(GS_Execute(Self, <<>>, <<>>, "W1", GS_Params16(FALSE), d), 0)

Next16 ==
    \/ Play16
    \/ Block16

Spec16 == Init16 /\ [][Next16]_vars


(***************************************************************************)
(* Play triggers of FGranularSynthOperator over the values of the Active   *)
(* Voices and Warm Start inputs.                                           *)
(***************************************************************************)
ActiveVoicesInputs == {-100, 0, 1, 50, 99, 100, 150, 300, 400}

GS_Params21 ==
    {[GrainDurationMs |-> 8, DurationRandMs |-> 0, ActiveVoicesX100 |-> av,
      TimeJitter |-> 0, StartPoint |-> 0, StartPointRandMs |-> 0, ReverseChance |-> 0,
      PitchShift |-> 0, WarmStart |-> w] : av \in ActiveVoicesInputs, w \in BOOLEAN}

Init21 == Init /\ op = "GS"

\* a block with one or two Play triggers
Play21 ==
    /\ \E play \in {<<2>>, <<0, 3>>} : \E asset \in {"W1", "Short", "NoReader"} :
         \E p \in GS_Params21 : \E d \in {dLow, dNoReader} :
            Install(GS_Execute(Self, <<>>, play, asset, p, d))
    /\ UNCHANGED <<sched, env>>

Next21 ==
    \/ Play21
    \/ ResetGS

Spec21 == Init21 /\ [][Next21]_vars

(***************************************************************************)
(* The grain envelope of the render loops, sample by sample.  Envelope     *)
(* values are in thousandths; percentages in hundredths.  env is           *)
(*   op     the operator class rendering the grain                         *)
(*   e      the grain length and the envelope inputs of the block          *)
(*   frame  samples of the grain rendered so far                           *)
(*   raw    EnvelopeScale of the last sample before the final clamp        *)
(*   gain   the value the last sample was multiplied by                    *)
(***************************************************************************)
\* 1.0f
EnvelopeOne == 1000

\* FMath::Cos at k eighths of a turn
CosEighths(k) ==
    CASE k % 8 = 0 -> 1000
      [] k % 8 \in {1, 7} -> 707
      [] k % 8 \in {2, 6} -> 0
      [] k % 8 \in {3, 5} -> -707
      [] OTHER -> -1000

\* FMath::Exp(-0.5 * z * z), tabulated by z * z in hundredths
ExpNegHalf(z2) ==
    IF z2 = 0 THEN 1000
    ELSE IF z2 <= 25 THEN 882
    ELSE IF z2 <= 100 THEN 607
    ELSE IF z2 <= 225 THEN 325
    ELSE IF z2 <= 400 THEN 135
    ELSE 11

\* FMath::Pow(x, exponent) for 0 <= x <= 1.  The exponent is "one", "two",
\* "below" (between 0 and 1) or "above" (above 1, not an integer); for the
\* last two the result lies between x and 1, or between 0 and x, and the
\* values are the two ends and the middle.
PowValues(x, exponent) ==
    IF x <= 0 THEN {0}
    ELSE IF x >= EnvelopeOne THEN {x}
    ELSE CASE exponent = "one" -> {x}
           [] exponent = "two" -> {(x * x) \div EnvelopeOne}
           [] exponent = "below" -> {x, (x + EnvelopeOne) \div 2, EnvelopeOne}
           [] OTHER -> {0, x \div 2, x}

\* What float rounding leaves of an expression over the constants 0.42f and
\* 0.08f: less than a thousandth, of either sign (0.42f - 0.5f + 0.08f < 0).
FloatResidue == {-1, 0, 1}

Abs(x) == IF x < 0 THEN -x ELSE x

\* an envelope that is multiplied in as it was computed
ClampEnvelopeScale_Off(EnvelopeScale) == EnvelopeScale

\* FMath::Clamp(EnvelopeScale, 0.0f, 1.0f)
ClampEnvelopeScale(EnvelopeScale) == Clamp(EnvelopeScale, 0, EnvelopeOne)

\* AttackTimePercent and DecayTimePercent after FMath::Clamp(., 0, 1)
Percents == {0, 30, 50, 100}
GrainLengths == 1..MaxGrainSamples

\* FGranularSynthOperator and FGranularSynthOperator_Step8: the values
\* EnvelopeScale can have at sample CurrentFrameInGrain
GS_EnvelopeInputs ==
    [TotalGrainSamples : GrainLengths, AttackPercent : Percents, DecayPercent : Percents,
     AttackCurveFactor : {"below", "one", "two"}, DecayCurveFactor : {"one", "above"}]

GS_EnvelopeScale(e, CurrentFrameInGrain) ==
    LET ClampedDecayPercent == Min(e.DecayPercent, 100 - e.AttackPercent)
        AttackSamples == CeilDiv(e.TotalGrainSamples * e.AttackPercent, 100)
        DecaySamples == CeilDiv(e.TotalGrainSamples * ClampedDecayPercent, 100)
    IN  IF CurrentFrameInGrain < AttackSamples
        THEN PowValues(IF AttackSamples > 0
                       THEN (CurrentFrameInGrain * EnvelopeOne) \div AttackSamples
                       ELSE EnvelopeOne,
                       e.AttackCurveFactor)
        ELSE IF CurrentFrameInGrain >= e.TotalGrainSamples - DecaySamples
        THEN PowValues(IF DecaySamples > 0
                       THEN ((e.TotalGrainSamples - CurrentFrameInGrain) * EnvelopeOne)
                                \div DecaySamples
                       ELSE 0,
                       e.DecayCurveFactor)
        ELSE {EnvelopeOne}

\* FGranularWavePlayerSmoothOperator.  GrainOverlap is the input after
\* Clamp(., 1, 5), SmoothingAmount the voice's smoothing (0 or 1),
\* GrainWindowShape and XfadeCurveIndex the clamped enum inputs.
WindowShapes ==
    {"Linear", "Parabolic", "Gaussian", "Cosine", "Hann", "Blackman", "Triangular",
     "Rectangular"}

Smooth_EnvelopeInputs ==
    [TotalGrainSamples : GrainLengths, AttackPercent : Percents, DecayPercent : {0, 50},
     GrainWindowShape : WindowShapes, GrainOverlap : {1, 3}, SmoothingAmount : {0, 1},
     XfadeCurveIndex : 0..2]

\* the window of the switch statement.  Trigonometric phases are taken at
\* eighths of a turn; the voice's PhaseOffset (at most 0.05) is below that.
Smooth_WindowValues(e, CurrentFrameInGrain) ==
    LET T == e.TotalGrainSamples
        ClampedDecayPercent == Min(e.DecayPercent, 100 - e.AttackPercent)
        \* FMath::Min(1.0f, 1.0f / GrainOverlap) times the percentage
        AdaptiveAttackPercent == Clamp(e.AttackPercent \div e.GrainOverlap, 5, 95)
        AdaptiveDecayPercent == Clamp(ClampedDecayPercent \div e.GrainOverlap, 5, 95)
        AttackSamples == CeilDiv(T * AdaptiveAttackPercent, 100)
        DecaySamples == CeilDiv(T * AdaptiveDecayPercent, 100)
        up == IF AttackSamples > 0 THEN (CurrentFrameInGrain * EnvelopeOne) \div AttackSamples
              ELSE EnvelopeOne
        down == IF DecaySamples > 0
                THEN ((T - CurrentFrameInGrain) * EnvelopeOne) \div DecaySamples
                ELSE 0
        ramp == IF CurrentFrameInGrain < AttackSamples THEN up
                ELSE IF CurrentFrameInGrain >= T - DecaySamples THEN down
                ELSE EnvelopeOne
        eighths == (8 * CurrentFrameInGrain) \div T
        raisedCosine == (EnvelopeOne - CosEighths(eighths)) \div 2
        num == 100 * CurrentFrameInGrain - T * (50 + 10 * e.SmoothingAmount)
        den == T * (25 + 10 * e.SmoothingAmount)
    IN  CASE e.GrainWindowShape = "Linear" -> {ramp}
          [] e.GrainWindowShape = "Parabolic" ->
                IF ramp = EnvelopeOne THEN {ramp} ELSE {(ramp * ramp) \div EnvelopeOne}
          [] e.GrainWindowShape = "Gaussian" -> {ExpNegHalf((100 * num * num) \div (den * den))}
          [] e.GrainWindowShape = "Cosine" -> {raisedCosine}
          [] e.GrainWindowShape = "Hann" ->
                IF e.XfadeCurveIndex = 2
                THEN PowValues(raisedCosine,
                               IF e.SmoothingAmount = 0 THEN "below" ELSE "above")
                ELSE {raisedCosine}
          [] e.GrainWindowShape = "Blackman" ->
                {420 - (500 * CosEighths(eighths)) \div EnvelopeOne
                     + (80 * CosEighths(2 * eighths)) \div EnvelopeOne + r :
                   r \in FloatResidue}
          [] e.GrainWindowShape = "Triangular" ->
                {EnvelopeOne - Abs((2 * CurrentFrameInGrain * EnvelopeOne) \div T - EnvelopeOne)}
          [] OTHER -> {EnvelopeOne}

\* the envelope softening after the switch
Smooth_Softened(e, EnvelopeScale) ==
    IF e.SmoothingAmount > 0 /\ EnvelopeScale > 0 /\ EnvelopeScale < EnvelopeOne
    THEN PowValues(EnvelopeScale, "below")
    ELSE {EnvelopeScale}

\* an envelope that applies the attack and decay ramps whatever the window is
Smooth_EnvelopeScale_Ramps(e, CurrentFrameInGrain) ==
    UNION {Smooth_Softened(e, w) :
             w \in Smooth_WindowValues([e EXCEPT !.GrainWindowShape = "Linear"],
                                       CurrentFrameInGrain)}

Smooth_EnvelopeScale(e, CurrentFrameInGrain) ==
    UNION {Smooth_Softened(e, w) : w \in Smooth_WindowValues(e, CurrentFrameInGrain)}

\* a grain of each operator class is about to be rendered
InitEnvelope ==
    /\ env \in {[op |-> o, e |-> e, frame |-> 0, raw |-> EnvelopeOne, gain |-> EnvelopeOne] :
                  o \in {"GS", "Step8"}, e \in GS_EnvelopeInputs}
               \cup {[op |-> "Smooth", e |-> e, frame |-> 0, raw |-> EnvelopeOne,
                      gain |-> EnvelopeOne] : e \in Smooth_EnvelopeInputs}
    /\ op = env.op
    /\ SampleRate \in SampleRates
    /\ BlockSize \in BlockSizes
    /\ bIsPlaying = FALSE
    /\ SamplesUntilNextGrain = 0
    /\ GrainVoices = [i \in Voices |-> FGrainVoice]
    /\ CurrentWaveProxy = "None"
    /\ CachedSoundWaveDuration = 0
    /\ CurrentNumChannels = 0
    /\ ConvertDeinterleave = FALSE
    /\ OnPlayTrigger = <<>>
    /\ OnFinishedTrigger = <<>>
    /\ OnGrainTriggered = <<>>
    /\ AudioOutputLeft = {}
    /\ AudioOutputRight = {}
    /\ OutputGrain = NoGrain
    /\ bPreviousFreezeState = FALSE
    /\ CurrentPlaybackPositionSeconds = 0
    /\ PrevGrainValue = FALSE
    /\ blk = NoBlk
    /\ sched = NoSched

\* one sample of the inner loop: EnvelopeScale is computed, clamped and
\* multiplied in
Enveloped(EnvelopeScale) ==
    /\ env' = [env EXCEPT !.frame = @ + 1, !.raw = EnvelopeScale,
                          !.gain = ClampEnvelopeScale(EnvelopeScale)]
    /\ UNCHANGED <<op, SampleRate, BlockSize, bIsPlaying, SamplesUntilNextGrain, GrainVoices,
                   CurrentWaveProxy, CachedSoundWaveDuration, CurrentNumChannels,
                   ConvertDeinterleave, OnPlayTrigger, OnFinishedTrigger, OnGrainTriggered,
                   AudioOutputLeft, AudioOutputRight, OutputGrain, bPreviousFreezeState,
                   CurrentPlaybackPositionSeconds, PrevGrainValue, blk, sched>>

EnvelopeGS ==
    /\ env.op = "GS" /\ env.frame < env.e.TotalGrainSamples
    /\ \E v \in GS_EnvelopeScale(env.e, env.frame) : Enveloped(v)

EnvelopeStep8 ==
    /\ env.op = "Step8" /\ env.frame < env.e.TotalGrainSamples
    /\ \E v \in GS_EnvelopeScale(env.e, env.frame) : Enveloped(v)

EnvelopeSmooth ==
    /\ env.op = "Smooth" /\ env.frame < env.e.TotalGrainSamples
    /\ \E v \in Smooth_EnvelopeScale(env.e, env.frame) : Enveloped(v)

NextEnvelope ==
    \/ EnvelopeGS
    \/ EnvelopeStep8
    \/ EnvelopeSmooth

SpecEnvelope == InitEnvelope /\ [][NextEnvelope]_vars

(***************************************************************************)
(* Properties.  blk is the observation of the last step: what the block    *)
(* was given and what its phases did.                                      *)
(***************************************************************************)

\* C1: in each operator, after any sequence of Execute and Reset, the number
\* of voices with bIsActive set never exceeds MaxGrainVoices.
C1_ActiveVoicesBounded == Cardinality(ActiveVoices(GrainVoices)) <= MaxGrainVoices

\* a grain came due in a block that found every voice of the pool busy with
\* a grain of an earlier block
C1_PoolFullGrainDue ==
    /\ blk.kind = "Execute" /\ bIsPlaying /\ blk.due > 0
    /\ \A i \in DOMAIN GrainVoices : GrainVoices[i].bIsActive /\ GrainVoices[i].Age >= 2

C3_FailedPlayStops ==
    (blk.kind = "Execute" /\ blk.play # <<>> /\ ~blk.playOk)
        => /\ OnFinishedTrigger # <<>>
           /\ AllZero(AudioOutputLeft) /\ AllZero(AudioOutputRight)
           /\ ActiveVoices(GrainVoices) = {}
           /\ ~bIsPlaying

\* a Play trigger failed in a block that began Playing
C3_PlayFailedWhilePlaying ==
    blk.kind = "Execute" /\ blk.play # <<>> /\ ~blk.playOk /\ blk.wasPlaying

C5_StoppingEmitsFinished ==
    (blk.kind = "Execute" /\ blk.wasPlaying /\ ~bIsPlaying) => OnFinishedTrigger # <<>>

\* a block with no trigger went from Playing to Stopped on a re-binding that
\* failed
C5_StoppedByFailedRebind ==
    /\ blk.kind = "Execute" /\ blk.wasPlaying /\ ~bIsPlaying
    /\ blk.stop = <<>> /\ blk.play = <<>> /\ blk.rebind = "fail"

C7_ReboundStaysPlaying ==
    (blk.kind = "Execute" /\ blk.rebind = "ok")
        => bIsPlaying /\ OnPlayTrigger = <<>> /\ OnFinishedTrigger = <<>>

\* C7, amended: while Playing, a block whose asset input changed stays
\* Playing and emits neither OnPlay nor OnFinished if and only if the new
\* asset binds and passes the block's sanity check; otherwise the block ends
\* Stopped with OnFinished emitted, all-zero outputs and no active voice.
C7_ReboundAndSaneStaysPlaying ==
    (blk.kind = "Execute" /\ blk.rebind # "none")
        => IF blk.rebind = "ok" /\ ~blk.sanity
           THEN bIsPlaying /\ OnPlayTrigger = <<>> /\ OnFinishedTrigger = <<>>
           ELSE /\ ~bIsPlaying /\ OnFinishedTrigger # <<>>
                /\ AllZero(AudioOutputLeft) /\ AllZero(AudioOutputRight)
                /\ ActiveVoices(GrainVoices) = {}

\* the asset changed under a Playing engine, the new asset bound, and a grain
\* of the old asset is still sounding
C7_ReboundWithGrainSounding ==
    /\ blk.kind = "Execute" /\ blk.rebind = "ok" /\ ~blk.sanity
    /\ \E i \in DOMAIN GrainVoices : GrainVoices[i].bIsActive /\ GrainVoices[i].Age >= 2

\* C8: a voice that is active has been rendered in fewer than
\* ceil(TotalGrainSamples / BlockSize) blocks: every grain ends within that
\* many Playing blocks, whatever its reader gives.
C8_GrainEndsInTime ==
    \A i \in DOMAIN GrainVoices :
        GrainVoices[i].bIsActive
            => GrainVoices[i].Age < CeilDiv(GrainVoices[i].TotalGrainSamples, BlockSize)

\* C9: a voice whose reader gave no frames to a read of this block is
\* inactive at the end of the block, and the engine is still Playing.
C9_FailedReaderEndsVoice ==
    (blk.kind = "Execute" /\ blk.readFailed # {})
        => /\ \A i \in blk.readFailed : ~GrainVoices[i].bIsActive
           /\ bIsPlaying

\* C10 as stated: the grain a block commits starts at or after 0 and ends at
\* or before the cached asset duration.
C10_GrainInsideAsset ==
    (blk.kind = "Execute" /\ OnGrainTriggered # <<>>)
        => /\ blk.grain.StartTime >= 0
           /\ blk.grain.StartTime + blk.grain.Duration <= CachedSoundWaveDuration

\* C10, amended: the grain a block commits starts inside the asset, at or
\* after 0 and at or before the cached asset duration; in the smooth wave
\* player it also ends at or before the cached asset duration.
C10_GrainStartsInsideAsset ==
    (blk.kind = "Execute" /\ OnGrainTriggered # <<>>)
        => /\ blk.grain.StartTime >= 0
           /\ blk.grain.StartTime <= CachedSoundWaveDuration
           /\ op = "Smooth"
                => blk.grain.StartTime + blk.grain.Duration <= CachedSoundWaveDuration

\* the smooth wave player committed a grain that it moved back to end at the
\* end of the asset
C10_GrainMovedBackToFit ==
    /\ blk.kind = "Execute" /\ op = "Smooth" /\ OnGrainTriggered # <<>>
    /\ blk.grain.StartTime > 0
    /\ blk.grain.StartTime + blk.grain.Duration = CachedSoundWaveDuration

\* C11: every active voice has a resampler, TotalGrainSamples > 0 and a
\* usable source (a reader for a forward grain, a non-empty reversed segment
\* for a reversed grain), and every slot that a TriggerGrain of the block
\* chose and then gave up is inactive.
C11_ActiveVoicesInitialised ==
    /\ \A i \in DOMAIN GrainVoices :
          GrainVoices[i].bIsActive
              => /\ GrainVoices[i].Resampler # 0
                 /\ GrainVoices[i].TotalGrainSamples > 0
                 /\ IF GrainVoices[i].bIsReversed
                    THEN GrainVoices[i].FullGrainSegmentBuffer > 0
                    ELSE GrainVoices[i].Reader
    /\ \A i \in blk.failed : ~GrainVoices[i].bIsActive

\* a TriggerGrain gave up a slot while an earlier grain is still sounding
C11_SlotGivenUpBesideSoundingGrain ==
    /\ blk.kind = "Execute" /\ bIsPlaying /\ blk.failed # {}
    /\ \E i \in DOMAIN GrainVoices : GrainVoices[i].bIsActive /\ i \notin blk.failed

\* C12: in every step, no voice is left with a negative SamplesRemaining,
\* every voice that is active after the step has SamplesRemaining > 0, and a
\* voice that goes on with the same grain has not more SamplesRemaining than
\* before the step.
C12_SamplesRemainingRunsDown ==
    [][/\ blk'.lowest >= 0
       /\ \A i \in DOMAIN GrainVoices' :
             /\ GrainVoices'[i].SamplesRemaining >= 0
             /\ GrainVoices'[i].bIsActive => GrainVoices'[i].SamplesRemaining > 0
             /\ ( /\ i \in DOMAIN GrainVoices
                  /\ GrainVoices[i].bIsActive /\ GrainVoices'[i].bIsActive
                  /\ \/ GrainVoices'[i].Age > GrainVoices[i].Age
                     \/ GrainVoices[i].Age = MaxAge /\ GrainVoices'[i].Age = MaxAge )
                => GrainVoices'[i].SamplesRemaining <= GrainVoices[i].SamplesRemaining]_vars

\* a voice is in the middle of a grain it has been rendering for some blocks
C12_VoiceMidGrain ==
    /\ blk.kind = "Execute" /\ bIsPlaying
    /\ \E i \in DOMAIN GrainVoices :
          /\ GrainVoices[i].bIsActive /\ GrainVoices[i].Age >= 2
          /\ GrainVoices[i].SamplesRemaining < GrainVoices[i].TotalGrainSamples

\* C13: a Playing block that begins with every voice active, gets no Play or
\* Stop trigger and passes the asset checks drops the grains that come due in
\* it: no grain is committed, no OnGrain and no OnFinished is emitted, the
\* engine is still Playing, and every voice that is active after the block
\* goes on with the grain it had.
C13_FullPoolDropsGrain ==
    [][( /\ \A i \in DOMAIN GrainVoices : GrainVoices[i].bIsActive
         /\ blk'.kind = "Execute" /\ blk'.due > 0
         /\ blk'.play = <<>> /\ blk'.stop = <<>>
         /\ blk'.rebind \in {"none", "ok"} /\ ~blk'.sanity )
        => /\ blk'.committed = 0 /\ OnGrainTriggered' = <<>>
           /\ OnFinishedTrigger' = <<>> /\ bIsPlaying'
           /\ \A i \in DOMAIN GrainVoices' :
                 GrainVoices'[i].bIsActive
                     => /\ GrainVoices'[i].TotalGrainSamples = GrainVoices[i].TotalGrainSamples
                        /\ GrainVoices'[i].bIsReversed = GrainVoices[i].bIsReversed
                        /\ GrainVoices'[i].Resampler = GrainVoices[i].Resampler
                        /\ GrainVoices'[i].SamplesPlayed >= GrainVoices[i].SamplesPlayed
                        /\ GrainVoices'[i].Age >= GrainVoices[i].Age]_vars

\* a grain came due in a block without triggers that every voice was busy in
\* from its start to its end, and none was committed
C13_GrainDueAllVoicesBusy ==
    /\ blk.kind = "Execute" /\ blk.due > 0 /\ blk.committed = 0
    /\ blk.play = <<>> /\ blk.stop = <<>> /\ blk.rebind = "none"
    /\ \A i \in DOMAIN GrainVoices : GrainVoices[i].bIsActive /\ GrainVoices[i].Age >= 2

\* C14: the number of OnGrain events of a block equals the number of grains
\* that TriggerGrain committed to a voice in the block.
C14_OnGrainPerCommittedGrain ==
    blk.kind = "Execute" => Len(OnGrainTriggered) = blk.committed

\* of the grains that came due in a block without a Play trigger, some were
\* committed and some were dropped
C14_SomeCommittedSomeDropped ==
    /\ blk.kind = "Execute" /\ blk.play = <<>>
    /\ blk.committed > 0 /\ blk.due > blk.committed

C16_GrainEveryNineOrTenBlocks ==
    /\ blk.due <= 1
    /\ sched.gap \in {0, 4800 \div 512, 4800 \div 512 + 1}
    /\ sched.since <= 4800 \div 512
    /\ sched.grains >= 2 => sched.gap # 0
    /\ (sched.blocks >= 1 /\ bIsPlaying)
          => sched.grains = (sched.blocks * 512) \div 4800 + 1
    /\ bIsPlaying => /\ SamplesUntilNextGrain * SamplesPerUnit16 > 0
                     /\ SamplesUntilNextGrain * SamplesPerUnit16 <= 4800

\* a whole scheduler period has gone by: 8 intervals in 75 blocks, the ninth
\* grain scheduled in block 75, and after block 76 the countdown is back at
\* its value after the first block
C16_PeriodCompleted ==
    /\ bIsPlaying /\ sched.blocks = 76 /\ sched.grains = 9
    /\ SamplesUntilNextGrain * SamplesPerUnit16 = 4800 - 512
    /\ sched.since = 1 /\ sched.gap = 4800 \div 512

C18_ReversedSegmentInsideAsset ==
    (op = "GS" /\ blk.kind = "Execute" /\ blk.committed > 0 /\ blk.segment.Reversed)
        => /\ 0 <= blk.segment.Start
           /\ blk.segment.Start < blk.segment.End
           /\ blk.segment.End <= blk.segment.Asset

\* a reversed grain that needs more source material than the asset holds
C18_SegmentCutToAsset ==
    /\ op = "GS" /\ blk.kind = "Execute" /\ blk.committed > 0 /\ blk.segment.Reversed
    /\ blk.segment.Needed > blk.segment.Asset
    /\ blk.segment.End = blk.segment.Asset

\* C19: every sample of every grain is multiplied by an envelope gain
\* between 0 and 1, for every window shape, attack and decay percentage,
\* curve factor, overlap and smoothing.
C19_EnvelopeGainInUnitRange ==
    env.op # "None" => env.gain >= 0 /\ env.gain <= EnvelopeOne

\* a sample whose envelope came out of the window below 0 and was multiplied by 0
C19_NegativeEnvelopeClamped ==
    env.op # "None" /\ env.frame > 0 /\ env.raw < 0 /\ env.gain = 0

\* C20 as stated: a Reset called while Stopped changes no observable output:
\* silence before and after, no event, Stopped with no active voice, the
\* telemetry outputs as they were, and nothing changed by a Reset after a Reset.
C20_ResetChangesNoOutput ==
    [][(blk'.kind = "Reset" /\ ~bIsPlaying)
        => /\ AllZero(AudioOutputLeft) /\ AllZero(AudioOutputRight)
           /\ AllZero(AudioOutputLeft') /\ AllZero(AudioOutputRight')
           /\ OnPlayTrigger' = <<>> /\ OnFinishedTrigger' = <<>> /\ OnGrainTriggered' = <<>>
           /\ ~bIsPlaying'
           /\ \A i \in DOMAIN GrainVoices' : ~GrainVoices'[i].bIsActive
           /\ OutputGrain' = OutputGrain
           /\ blk.kind = "Reset"
                 => UNCHANGED <<bIsPlaying, SamplesUntilNextGrain, GrainVoices,
                                CurrentWaveProxy, CachedSoundWaveDuration,
                                CurrentNumChannels, ConvertDeinterleave, OnPlayTrigger,
                                OnFinishedTrigger, OnGrainTriggered, AudioOutputLeft,
                                AudioOutputRight, OutputGrain, bPreviousFreezeState,
                                CurrentPlaybackPositionSeconds, PrevGrainValue>>]_vars

\* C20: a Reset called while Stopped leaves the audio all-zero, emits no
\* OnPlay, OnFinished or OnGrain, leaves the engine Stopped with no active
\* voice and sets the per-grain telemetry outputs to zero; a Reset after a
\* Reset changes nothing.
C20_ResetWhileStopped ==
    [][(blk'.kind = "Reset" /\ ~bIsPlaying)
        => /\ AllZero(AudioOutputLeft) /\ AllZero(AudioOutputRight)
           /\ AllZero(AudioOutputLeft') /\ AllZero(AudioOutputRight')
           /\ OnPlayTrigger' = <<>> /\ OnFinishedTrigger' = <<>> /\ OnGrainTriggered' = <<>>
           /\ ~bIsPlaying'
           /\ \A i \in DOMAIN GrainVoices' : ~GrainVoices'[i].bIsActive
           /\ OutputGrain' = NoGrain
           /\ blk.kind = "Reset"
                 => UNCHANGED <<bIsPlaying, SamplesUntilNextGrain, GrainVoices,
                                CurrentWaveProxy, CachedSoundWaveDuration,
                                CurrentNumChannels, ConvertDeinterleave, OnPlayTrigger,
                                OnFinishedTrigger, OnGrainTriggered, AudioOutputLeft,
                                AudioOutputRight, OutputGrain, bPreviousFreezeState,
                                CurrentPlaybackPositionSeconds, PrevGrainValue>>]_vars

\* Reset was called on a Stopped engine
C20_ResetCalledWhileStopped ==
    /\ blk.kind = "Reset" /\ ~blk.wasPlaying /\ ~bIsPlaying
    /\ AllZero(AudioOutputLeft) /\ AllZero(AudioOutputRight)
    /\ OutputGrain = NoGrain

(***************************************************************************)
(* A session of FGranularWavePlayerSmoothOperator at a constant Grain      *)
(* Density of 1: grains of 8 ms, one due every block, while the host moves *)
(* Playback Speed between 0 (freeze), 0.25, 1 and 8, Play Position between *)
(* 0 and 100 % and Time Jitter between 0 and 8 ms (twice the grain         *)
(* interval), changes the asset, and sends Play and Stop.                  *)
(***************************************************************************)
Init23 == Init /\ op = "Smooth"

Block23 ==
    /\ \E h \in {[stop |-> <<>>, play |-> <<>>, asset |-> "W1"],
                 [stop |-> <<>>, play |-> <<>>, asset |-> "W2"],
                 [stop |-> <<>>, play |-> <<2>>, asset |-> "W1"],
                 [stop |-> <<>>, play |-> <<2>>, asset |-> "W2"],
                 [stop |-> <<1>>, play |-> <<>>, asset |-> "None"]} :
         \E speed \in {0, 25, 100, 800} : \E position \in {0, 100} :
           \E jitter \in {0, 8} : \E d \in {dLow, dHigh, dEarly} :
            Install(Smooth_Execute(Self, h.stop, h.play, h.asset,
                                   [Smooth_Params3 EXCEPT !.PlaybackSpeed = speed,
                                                          !.PlayPosition = position,
                                                          !.TimeJitterMs = jitter],
                                   d))
    /\ UNCHANGED <<sched, env>>

Next23 ==
    \/ Block23
    \/ ResetSmooth

Spec23 == Init23 /\ [][Next23]_vars

(***************************************************************************)
(* The operators as constructed by a host whose settings give 0 frames per *)
(* block.  FGranularSynthOperator's constructor puts 256 frames in the     *)
(* place of a size that is not positive (the frames of one decode chunk,   *)
(* DeinterleaveBlockSizeFrames in the units of the model); the other two   *)
(* constructors take the host's number as it is.                           *)
(***************************************************************************)
Init25 ==
    /\ op \in Ops
    /\ SampleRate \in SampleRates
    /\ BlockSize = IF op = "GS" THEN DeinterleaveBlockSizeFrames ELSE 0
    /\ bIsPlaying = FALSE
    /\ SamplesUntilNextGrain = 0
    /\ GrainVoices = [i \in Voices |-> FGrainVoice]
    /\ CurrentWaveProxy = "None"
    /\ CachedSoundWaveDuration = 0
    /\ CurrentNumChannels = 0
    /\ ConvertDeinterleave = FALSE
    /\ OnPlayTrigger = <<>>
    /\ OnFinishedTrigger = <<>>
    /\ OnGrainTriggered = <<>>
    /\ AudioOutputLeft = {}
    /\ AudioOutputRight = {}
    /\ OutputGrain = NoGrain
    /\ bPreviousFreezeState = FALSE
    /\ CurrentPlaybackPositionSeconds = 0
    /\ PrevGrainValue = FALSE
    /\ blk = NoBlk
    /\ sched = NoSched
    /\ env = NoEnv

Spec25 == Init25 /\ [][Next]_vars

(***************************************************************************)
(* Blocks that carry Stop and Play triggers in either frame order, one or  *)
(* two Play triggers, and an asset that binds or one whose reader cannot   *)
(* be created, for each of the three operators, at a Pitch Shift of 0 or   *)
(* of 36 semitones (frame ratio 8).                                        *)
(***************************************************************************)
Next27 ==
    /\ \E stop \in {<<>>, <<1>>, <<3>>} : \E play \in {<<>>, <<2>>, <<0, 3>>} :
         \E asset \in {"W1", "NoReader"} : \E d \in {dLow, dHigh} : \E pitch \in {0, 36} :
            Install(CASE op = "GS" ->
                            GS_Execute(Self, stop, play, asset,
                                       [GS_Params1 EXCEPT !.PitchShift = pitch], d)
                      [] op = "Step8" ->
                            Step8_Execute(Self, stop, play, asset,
                                          [Step8_Params1 EXCEPT !.PitchShift = pitch], d)
                      [] OTHER ->
                            Smooth_Execute(Self, stop, play, asset,
                                           [Smooth_Params1 EXCEPT !.PitchShift = pitch], d))
    /\ UNCHANGED <<sched, env>>

Spec27 == Init /\ [][Next27]_vars

\* C21 as stated: a successful Play with Warm Start enabled attempts N grains
\* at the Play trigger's frame, N = floor(Active Voices), 1 for a positive
\* fraction, clamped to the pool, and sets the countdown to one base interval.
C21_WarmStartAttemptsN ==
    (op = "GS" /\ blk.kind = "Execute" /\ blk.play # <<>> /\ blk.playOk /\ blk.warm.enabled)
        => /\ blk.warm.attempts =
                 Clamp(IF blk.warm.activeVoices > 0 /\ blk.warm.activeVoices < 100 THEN 1
                       ELSE blk.warm.activeVoices \div 100, 0, MaxGrainVoices)
           /\ blk.warm.attempts > 0 => blk.warm.frames = {blk.play[Len(blk.play)]}
           /\ blk.warm.sung = (Max(MinGrainDurationSeconds, blk.warm.duration) * SampleRate * 100)
                                 \div Max(1, blk.warm.activeVoices)

\* C21: the same, for an asset of at least the minimum grain duration; on a
\* shorter asset a successful Play attempts no grain and sets the countdown
\* to 0.
C21_WarmStartOnLongEnoughAsset ==
    (op = "GS" /\ blk.kind = "Execute" /\ blk.play # <<>> /\ blk.playOk /\ blk.warm.enabled)
        => IF blk.warm.asset >= MinGrainDurationSeconds
           THEN /\ blk.warm.attempts =
                      Clamp(IF blk.warm.activeVoices > 0 /\ blk.warm.activeVoices < 100 THEN 1
                            ELSE blk.warm.activeVoices \div 100, 0, MaxGrainVoices)
                /\ blk.warm.attempts > 0 => blk.warm.frames = {blk.play[Len(blk.play)]}
                /\ blk.warm.frames \subseteq {blk.play[Len(blk.play)]}
                /\ blk.warm.sung =
                      (Max(MinGrainDurationSeconds, blk.warm.duration) * SampleRate * 100)
                          \div Max(1, blk.warm.activeVoices)
                /\ blk.committed <= blk.warm.attempts * Len(blk.play) + blk.due
           ELSE blk.warm.attempts = 0 /\ blk.warm.sung = 0

\* a Play with a fractional Active Voices warm-started one grain
C21_FractionWarmStartsOne ==
    /\ op = "GS" /\ blk.kind = "Execute" /\ blk.play # <<>> /\ blk.playOk
    /\ blk.warm.enabled /\ blk.warm.activeVoices = 50
    /\ blk.warm.attempts = 1 /\ blk.committed >= 1 /\ bIsPlaying

\* C22: in a block of a Playing FGranularWavePlayerSmoothOperator in which
\* the freeze state toggles (no Play trigger, no change of asset, playback
\* goes on), no voice is reset: every voice that was active keeps its grain
\* (length, frame ratio, reader, channels), renders on from where it was, and
\* is deactivated only if its grain ends in the block; of the scheduler's
\* state the countdown alone is reset, to 0.
C22_FreezeToggleKeepsVoices ==
    [][(op = "Smooth" /\ blk'.kind = "Execute" /\ bIsPlaying /\ bIsPlaying'
        /\ blk'.play = <<>> /\ blk'.rebind = "none"
        /\ bPreviousFreezeState' # bPreviousFreezeState)
        => /\ SamplesUntilNextGrain' = 0
           /\ blk'.toggled
           /\ \A i \in DOMAIN GrainVoices :
                GrainVoices[i].bIsActive
                    => IF GrainVoices'[i].bIsActive
                       THEN /\ GrainVoices'[i].TotalGrainSamples = GrainVoices[i].TotalGrainSamples
                            /\ GrainVoices'[i].Resampler = GrainVoices[i].Resampler
                            /\ GrainVoices'[i].Reader = GrainVoices[i].Reader
                            /\ GrainVoices'[i].NumChannels = GrainVoices[i].NumChannels
                            /\ GrainVoices'[i].SamplesPlayed >= GrainVoices[i].SamplesPlayed
                            /\ GrainVoices'[i].SamplesPlayed + GrainVoices'[i].SamplesRemaining
                                   = GrainVoices[i].SamplesPlayed + GrainVoices[i].SamplesRemaining
                            /\ (GrainVoices'[i].SamplesPlayed > GrainVoices[i].SamplesPlayed
                                   \/ i \in blk'.readFailed)
                            /\ GrainVoices'[i].Age >= 2
                       ELSE GrainVoices[i].SamplesRemaining <= BlockSize]_vars

\* the freeze state toggled in a block that found a voice sounding, and the
\* voice sounds on
C22_ToggledBesideSoundingVoice ==
    /\ op = "Smooth" /\ blk.kind = "Execute" /\ blk.wasPlaying /\ bIsPlaying
    /\ blk.play = <<>> /\ blk.rebind = "none" /\ blk.toggled
    /\ SamplesUntilNextGrain = 0
    /\ \E i \in DOMAIN GrainVoices :
         GrainVoices[i].bIsActive /\ GrainVoices[i].Age >= 2 /\ GrainVoices[i].SamplesPlayed > 0

\* C23 as stated: every Playing block of FGranularWavePlayerSmoothOperator in
\* normal mode advances the position by (BlockSize / SampleRate) x speed and
\* wraps it modulo the asset duration, so that 0 <= position < duration.
C23_PositionAdvancesEveryBlock ==
    [][(op = "Smooth" /\ blk'.kind = "Execute" /\ bIsPlaying' /\ blk'.speed > 0)
        => /\ CurrentPlaybackPositionSeconds' =
                 (CurrentPlaybackPositionSeconds
                      + (BlockSize * blk'.speed) \div (SampleRate * 100))
                     % CachedSoundWaveDuration'
           /\ 0 <= CurrentPlaybackPositionSeconds'
           /\ CurrentPlaybackPositionSeconds' < CachedSoundWaveDuration']_vars

\* C23: the same, except in the first normal block after a frozen one, which
\* leaves the position where freeze mode put it (and only wraps it).
C23_PositionAdvancesAndWraps ==
    [][(op = "Smooth" /\ blk'.kind = "Execute" /\ bIsPlaying' /\ blk'.speed > 0)
        => /\ blk'.toggled = bPreviousFreezeState
           /\ ~bPreviousFreezeState'
           /\ CurrentPlaybackPositionSeconds' =
                 (CurrentPlaybackPositionSeconds
                      + IF bPreviousFreezeState THEN 0
                        ELSE (BlockSize * blk'.speed) \div (SampleRate * 100))
                     % CachedSoundWaveDuration'
           /\ 0 <= CurrentPlaybackPositionSeconds'
           /\ CurrentPlaybackPositionSeconds' < CachedSoundWaveDuration']_vars

\* a block at speed 8 went more than twice round the 12 ms asset
C23_WrappedTwice ==
    /\ op = "Smooth" /\ blk.kind = "Execute" /\ bIsPlaying /\ blk.wasPlaying
    /\ blk.speed = 800 /\ ~blk.toggled /\ blk.play = <<>>
    /\ CachedSoundWaveDuration = 12
    /\ CurrentPlaybackPositionSeconds = (10 + 32) % 12

\* C24 as stated: with a constant Grain Density target the number of active
\* voices of FGranularWavePlayerSmoothOperator never exceeds the target.
C24_NeverAboveDensity ==
    op = "Smooth"
        => Cardinality(ActiveVoices(GrainVoices))
               <= Clamp(Smooth_Params3.GrainDensity, 1, MaxGrainVoices)

\* C24: in a block whose freeze state does not toggle, grains are scheduled
\* only while the active voices, counting the grains already scheduled in the
\* block, are below the Grain Density target, and such a block never takes
\* the active voice count above a target it was not above; a block whose
\* freeze state toggles attempts two grains whatever the count is.
C24_DensityGate ==
    [][(op = "Smooth" /\ blk'.kind = "Execute")
        => IF blk'.toggled
           THEN blk'.due = 2
           ELSE /\ (blk'.play = <<>> /\ blk'.rebind = "none")
                     => \/ blk'.due = 0
                        \/ Cardinality(ActiveVoices(GrainVoices)) + blk'.due
                               <= Clamp(Smooth_Params3.GrainDensity, 1, MaxGrainVoices)
                /\ blk'.due <= Clamp(Smooth_Params3.GrainDensity, 1, MaxGrainVoices)
                /\ blk'.committed <= blk'.due
                /\ Cardinality(ActiveVoices(GrainVoices))
                        <= Clamp(Smooth_Params3.GrainDensity, 1, MaxGrainVoices)
                     => Cardinality(ActiveVoices(GrainVoices'))
                            <= Clamp(Smooth_Params3.GrainDensity, 1, MaxGrainVoices)]_vars

\* a grain was due in a block that found the one voice of the target sounding
\* (it rendered the end of its grain in the block), and none was scheduled
C24_GrainHeldBack ==
    /\ op = "Smooth" /\ blk.kind = "Execute" /\ blk.wasPlaying /\ bIsPlaying
    /\ blk.play = <<>> /\ blk.rebind = "none" /\ ~blk.toggled
    /\ blk.due = 0 /\ SamplesUntilNextGrain <= BlockSize
    /\ ~AllZero(AudioOutputLeft) /\ blk.lowest <= 0

\* C25: a block of an operator whose block size is zero or negative outputs
\* silence and leaves playback stopped, with OnFinished emitted if it was
\* playing.
C25_InvalidBlockSizeStops ==
    (blk.kind = "Execute" /\ BlockSize <= 0)
        => /\ AllZero(AudioOutputLeft) /\ AllZero(AudioOutputRight)
           /\ ~bIsPlaying
           /\ blk.wasPlaying => OnFinishedTrigger # <<>>

\* C26: with the Rectangular window every sample of a grain of
\* FGranularWavePlayerSmoothOperator gets the envelope gain 1.0, before and
\* after the clamp, whatever the attack, decay, overlap, crossfade type and
\* smoothing are.
C26_RectangularGainIsOne ==
    (env.op = "Smooth" /\ env.frame > 0 /\ env.e.GrainWindowShape = "Rectangular")
        => env.raw = EnvelopeOne /\ env.gain = EnvelopeOne

\* the first sample of a Rectangular grain with attack, decay, overlap,
\* the Smooth crossfade and smoothing all set
C26_RectangularAttackSample ==
    /\ env.op = "Smooth" /\ env.frame = 1 /\ env.e.GrainWindowShape = "Rectangular"
    /\ env.e.AttackPercent = 50 /\ env.e.DecayPercent = 50 /\ env.e.GrainOverlap = 3
    /\ env.e.SmoothingAmount = 1 /\ env.e.XfadeCurveIndex = 2
    /\ env.gain = EnvelopeOne

C28_OneOnFinishedPerBlock ==
    Len(OnFinishedTrigger) <= 1

\* C29: for every voice the render loop refills, the refill loop makes at
\* most ceil(frames needed / chunk) + 1 chunk reads, and the frames the
\* resampler needs for the block do not exceed the capacity of the voice's
\* ring (FGranularSynthOperator and FGranularSynthOperator_Step8).
C29_RefillBoundedAndFits ==
    \A r \in blk.refill :
        /\ r.reads <= CeilDiv(r.needed, DeinterleaveBlockSizeFrames) + 1
        /\ r.needed <= r.capacity

\* C30: in every block the scheduler loop adds a positive amount to the
\* countdown in each of its passes, and so makes at most
\* BlockSize / minimum interval + 1 passes and schedules at most that many
\* grains.
C30_SchedulerLoopBounded ==
    blk.kind = "Execute"
        => /\ blk.passes > 0 => blk.step > 0
           /\ blk.passes <= BlockSize \div MinSamplesPerGrainInterval + 1
           /\ blk.due <= BlockSize \div MinSamplesPerGrainInterval + 1

\* C31: in FGranularSynthOperator and FGranularSynthOperator_Step8 a block that
\* ends Playing leaves SamplesUntilNextGrain above 0 and, if the scheduler loop
\* made a pass, no larger than the interval a pass added; if it made none, no
\* larger than the countdown the block began with, or (in a block with a Play
\* trigger) the countdown TryStartPlayback set.
C31_CountdownPositiveAndBounded ==
    [][(op \in {"GS", "Step8"} /\ blk'.kind = "Execute" /\ bIsPlaying')
       => /\ SamplesUntilNextGrain' > 0
          /\ IF blk'.passes > 0 THEN SamplesUntilNextGrain' <= blk'.step
             ELSE IF blk'.play = <<>> THEN SamplesUntilNextGrain' <= SamplesUntilNextGrain
             ELSE SamplesUntilNextGrain' <= blk'.warm.sung]_vars
\* a block in which the loop made two passes (two grains due), and one that
\* only carried the countdown on
C31_TwoPassesInBlock ==
    /\ op \in {"GS", "Step8"} /\ blk.kind = "Execute" /\ bIsPlaying
    /\ blk.passes >= 2 /\ SamplesUntilNextGrain = blk.step
    /\ SamplesUntilNextGrain < BlockSize

\* C32: after every step, a voice that is not active holds neither a reader
\* nor a resampler.
C32_InactiveVoiceHoldsNothing ==
    \A i \in Voices :
        ~GrainVoices[i].bIsActive
            => ~GrainVoices[i].Reader /\ GrainVoices[i].Resampler = 0

C34_OutputHoldsOnlyThisBlock ==
    (blk.kind = "Execute" /\ bIsPlaying)
        => /\ 0 \notin AudioOutputLeft /\ AudioOutputLeft \ {-1} \subseteq Voices
           /\ 0 \notin AudioOutputRight /\ AudioOutputRight \ {-1} \subseteq Voices

\* C35: after every step, the channel count of every active voice is the
\* channel count of the session (that of the shared deinterleaver).
C35_VoiceChannelsAreSessionChannels ==
    \A i \in Voices :
        GrainVoices[i].bIsActive => GrainVoices[i].NumChannels = CurrentNumChannels

\* C36: a step leaves every active voice with SamplesPlayed + SamplesRemaining
\* = TotalGrainSamples, and a voice that goes on with the grain it had before
\* the step (it was active, is active, and has been rendered in two blocks or
\* more) has the TotalGrainSamples it had.
C36_GrainLengthFixed ==
    [][\A i \in Voices :
          GrainVoices'[i].bIsActive
              => /\ GrainVoices'[i].SamplesPlayed + GrainVoices'[i].SamplesRemaining
                        = GrainVoices'[i].TotalGrainSamples
                 /\ (GrainVoices[i].bIsActive /\ GrainVoices'[i].Age >= 2)
                        => GrainVoices'[i].TotalGrainSamples
                               = GrainVoices[i].TotalGrainSamples]_vars
\* a voice in the second block of its grain, part played and part remaining
C36_VoiceInSecondBlock ==
    \E i \in Voices :
        /\ GrainVoices[i].bIsActive /\ GrainVoices[i].Age >= 2
        /\ GrainVoices[i].SamplesPlayed > 0 /\ GrainVoices[i].SamplesRemaining > 0
        /\ GrainVoices[i].SamplesPlayed + GrainVoices[i].SamplesRemaining
               = GrainVoices[i].TotalGrainSamples

\* C37: every grain TriggerGrain commits to a voice is at least
\* MinGrainDurationSeconds long (TotalGrainSamples, in samples at the
\* operator's sample rate).
C37_GrainAtLeastMinimum ==
    blk.committed > 0 => blk.grain.Samples >= MinGrainDurationSeconds * SampleRate
\* C37 (amended): a forward grain, and every grain of
\* FGranularSynthOperator_Step8 and FGranularWavePlayerSmoothOperator, is
\* committed with at least MinGrainDurationSeconds of output; a reversed grain
\* of FGranularSynthOperator is committed with the output its source segment
\* gives at the grain's frame ratio (the segment being the source material
\* needed, or the whole asset if that is shorter), at most the resolved
\* duration and at least 1 sample.
C37_GrainAtLeastMinimumUnlessCut ==
    blk.committed > 0
        => IF op = "GS" /\ blk.segment.Reversed
           THEN blk.grain.Samples
                    = Max(1, Min(blk.grain.Duration * SampleRate,
                                 CeilDiv(Min(blk.segment.Asset, blk.segment.Needed)
                                             * SampleRate,
                                         Pow2Semitones(OutputGrain.Pitch))))
           ELSE blk.grain.Samples >= MinGrainDurationSeconds * SampleRate
\* a reversed grain that needs more source material than the asset holds and
\* is committed shorter than the minimum grain
C37_ReversedGrainCutShort ==
    /\ op = "GS" /\ blk.committed > 0 /\ blk.segment.Reversed
    /\ blk.segment.Needed > blk.segment.Asset
    /\ blk.grain.Samples < MinGrainDurationSeconds * SampleRate
    /\ blk.grain.Duration >= MinGrainDurationSeconds

\* C38: after every step that leaves the operator not Playing, no voice is
\* active.
C38_StoppedPoolEmpty ==
    ~bIsPlaying => ActiveVoices(GrainVoices) = {}
\* a block that began Playing and was stopped by its asset check
C38_StoppedByAssetCheck ==
    /\ blk.kind = "Execute" /\ blk.wasPlaying /\ ~bIsPlaying
    /\ blk.rebind \in {"fail", "invalid"} \/ blk.sanity
    /\ OnFinishedTrigger = <<0>>
    /\ ActiveVoices(GrainVoices) = {}

(***************************************************************************)
(* A block on this operator and on a newly constructed one.                *)
(***************************************************************************)
\* the operator as its constructor leaves it, for the same host settings
Constructed ==
    [Self EXCEPT !.bIsPlaying = FALSE, !.SamplesUntilNextGrain = 0,
                 !.GrainVoices = [i \in Voices |-> FGrainVoice],
                 !.CurrentWaveProxy = "None", !.CachedSoundWaveDuration = 0,
                 !.CurrentNumChannels = 0, !.ConvertDeinterleave = FALSE,
                 !.OnPlayTrigger = <<>>, !.OnFinishedTrigger = <<>>,
                 !.OnGrainTriggered = <<>>, !.AudioOutputLeft = {},
                 !.AudioOutputRight = {}, !.OutputGrain = NoGrain,
                 !.bPreviousFreezeState = FALSE, !.CurrentPlaybackPositionSeconds = 0,
                 !.PrevGrainValue = FALSE, !.blk = NoBlk]

\* the parameter values and draws a block of operator o can be given
ScenesOf(o) ==
    CASE o.op = "GS" -> GSScenes [] o.op = "Step8" -> Step8Scenes [] OTHER -> SmoothScenes

\* Execute of operator o on the host inputs h with the scene sc
ExecuteOn(o, h, sc) ==
    CASE o.op = "GS" -> GS_Execute(o, h.stop, h.play, h.asset, sc.p, sc.d)
      [] o.op = "Step8" -> Step8_Execute(o, h.stop, h.play, h.asset, sc.p, sc.d)
      [] OTHER -> Smooth_Execute(o, h.stop, h.play, h.asset, sc.p, sc.d)

\* C39: in the state a Reset leaves, every block (any triggers, asset,
\* parameter values and random draws) gives the operator the state, events and
\* outputs it gives a newly constructed operator, so that every sequence of
\* blocks after a Reset goes as it does on a fresh instance.
C39_ResetIsFresh ==
    blk.kind = "Reset"
        => \A h \in HostInputs : \A sc \in ScenesOf(Self) :
               ExecuteOn(Self, h, sc) = ExecuteOn(Constructed, h, sc)

\* the members a session of FGranularWavePlayerSmoothOperator leaves behind
\* that TryStartPlayback does not write, at the values of the constructor
WithoutEarlierSession(o) ==
    [o EXCEPT !.CurrentPlaybackPositionSeconds = 0, !.bPreviousFreezeState = FALSE,
              !.PrevGrainValue = FALSE]

\* what a block of a session schedules, where it plays and what it puts out
SessionView(o) ==
    [SamplesUntilNextGrain |-> o.SamplesUntilNextGrain,
     CurrentPlaybackPositionSeconds |-> o.CurrentPlaybackPositionSeconds,
     GrainVoices |-> o.GrainVoices, OnGrainTriggered |-> o.OnGrainTriggered,
     AudioOutputLeft |-> o.AudioOutputLeft, AudioOutputRight |-> o.AudioOutputRight,
     due |-> o.blk.due, committed |-> o.blk.committed, grain |-> o.blk.grain]

\* C40: in FGranularWavePlayerSmoothOperator a block whose Play succeeds
\* schedules, positions and outputs the same, whatever playback position,
\* freeze flag and post-filter memory the earlier blocks left: the same as
\* with the position at 0, the flag false and the filter memory empty.
C40_PlayStartsIndependentSession ==
    op = "Smooth"
        => \A h \in HostInputs : \A sc \in SmoothScenes :
               LET here == Smooth_Execute(Self, h.stop, h.play, h.asset, sc.p, sc.d)
                   anew == Smooth_Execute(WithoutEarlierSession(Self), h.stop, h.play,
                                          h.asset, sc.p, sc.d)
               IN  (here.blk.play # <<>> /\ here.blk.playOk /\ here.bIsPlaying)
                       => SessionView(here) = SessionView(anew)
====
